---- MODULE Spec2Model ----
(***************************************************************************)
(* Decisioning core of payment-analysis.                                   *)
(*                                                                         *)
(*   SpecCache   the TTL cache layer of decisioning/engine.py: the         *)
(*               loaders _load_config, _load_decline_codes, _load_routes,  *)
(*               _load_rules run by concurrent callers, statement by       *)
(*               statement, against the module-level _CacheEntry objects.  *)
(*   SpecAssign  the experiment store of routes/decision.py and            *)
(*               routes/experiments.py: _get_or_assign_variant, assign,    *)
(*               create/start/stop of an experiment, one store statement   *)
(*               per step.                                                 *)
(*   SpecBucket  the bucketing expression of _get_or_assign_variant,       *)
(*               evaluated for several experiments, subjects and times.    *)
(*   SpecDecide  one decision request: _engine_decide and the decide_*     *)
(*               methods of DecisionEngine, with the service calls of      *)
(*               the gather on a millisecond clock and the context         *)
(*               objects on a heap.                                        *)
(*   SpecRules   the rule override: the rules query, _load_rules,          *)
(*               _evaluate_rules rule by rule, and the override of the     *)
(*               decision.                                                 *)
(*   SpecRoutes  the route ranking _route_scores_list of a refresh.        *)
(*   SpecResults the experiment analysis get_experiment_results of         *)
(*               routes/experiments.py, in exact arithmetic.               *)
(*   SpecOutcome DecisionEngine.record_outcome against the outcome and     *)
(*               decision-log tables.                                      *)
(*   SpecLog     decision requests one after the other, with their         *)
(*               commits to the assignment, online-feature and             *)
(*               decision-log stores.                                      *)
(*   SpecSync    rule CRUD of routes/rules.py on the primary store and     *)
(*               the background sync tasks to the secondary store.         *)
(*   SpecProposal, SpecProposalLive                                        *)
(*               create_proposal and review_proposal of                    *)
(*               routes/config_proposals.py; the second with an operator   *)
(*               who retries.                                              *)
(*   SpecReview  review_proposal calls of two operators, each in its own   *)
(*               session, step by step, against the config tables.         *)
(*   SpecStale   _evaluate_rules and _load_rules against a store whose     *)
(*               rule is deleted or deactivated, on a clock.               *)
(*   SpecParams  _params_from_config on the texts a config row can hold.   *)
(*   SpecSnap    the DecisionParams snapshot of interleaved decide_*       *)
(*               calls while the config cache is refreshed.                *)
(***************************************************************************)
EXTENDS Integers, FiniteSets, Sequences, TLC

\* ------------------------------------------------------------------------
\* Bounds of the model
\* ------------------------------------------------------------------------
NumThreads == 2
MaxCalls == 2
MaxTime == 61
NumClients == 2
MaxRequests == 3
MaxRuns == 2
MaxBucketTime == 2
MaxElapsed == 4000
MaxRules == 3
MaxRoutes == 3
MaxOutcomes == 4
MaxOutcomeRows == 2
MaxLogRequests == 2
MaxSyncOps == 3
MaxReviews == 2
MaxVersions == 2
MaxSnapRequests == 3

\* ------------------------------------------------------------------------
\* Cache layer: constants and state
\* ------------------------------------------------------------------------
CACHE_TTL_SECONDS == 60

Threads == 1..NumThreads
NoThread == 0
None == "None"
\* "data is None": no snapshot was stored yet
NoSnapshot == [kind |-> None, src |-> None, rows |-> None]
\* the loader has not returned
NoReturn == [snap |-> NoSnapshot, filter |-> "unset"]

Kinds == {"config", "decline_codes", "routes", "rules"}

\* Row sets a store read can return: the empty list or a non-empty one.
RowSets == {"empty", "r1"}

\* rule_type argument of _load_rules, as _evaluate_rules passes it
RuleTypes == {"authentication"}

\* Amounts by which the monotonic clock advances between two steps.
TickSteps == {CACHE_TTL_SECONDS, CACHE_TTL_SECONDS + 1}

VARIABLES
    now,        \* time.monotonic()
    cache,      \* the module-level _CacheEntry of each kind: data, fetched_at
    lock,       \* holder of _cache_lock, NoThread when free
    pc,         \* position of each caller inside its loader
    frame,      \* locals of each caller's loader call
    obs,        \* what each caller's current call has done so far
    loads,      \* store reads issued for each kind since its fetched_at was last set
    calls,      \* loader calls started so far
    has_runtime,\* whether the engines are built with a runtime (app.state.runtime)
    experiments,    \* Experiment table: status of each experiment id
    assignments,    \* ExperimentAssignment table: the number of rows holding each
                    \* (experiment_id, subject_key, variant); no query orders by id
    req,            \* the request each client is serving, and its position
    first_variant,  \* first variant _get_or_assign_variant returned for a pair
    nreq,           \* requests started so far
    bclock,         \* wall clock of the bucketing runs
    brows,          \* assignment rows the bucketing runs have stored
    runs,           \* the evaluations of the bucketing expression so far
    dreq,           \* the decision request _engine_decide is serving
    dcalls,         \* the service calls of the request: similarity and scoring
    elapsed,        \* milliseconds since the request began to await its calls
    objs,           \* heap of DecisionContext objects: risk_score, metadata ref
    dicts,          \* heap of metadata dict objects: the keys each one holds
    decision,       \* the decision object of the request
    rreq,           \* the rule override step of a decide_* method
    rtable,         \* approval_rules rows of the store when the rules were read
    rcache,         \* _rules_cache.data: the list the query returned
    matching,       \* the list _evaluate_rules is building
    rdec,           \* the decision object the policy function returned
    route_rows,     \* RoutePerformance rows the last refresh read
    routes,         \* _routes_cache.data: the ranked list it built
    exp_rows,       \* what the store holds for the experiment being analysed
    exp_results,    \* what get_experiment_results did with it
    decision_log,   \* DecisionLog rows of the store
    outcomes,       \* DecisionOutcome rows of the store, in insertion order
    out_obs,        \* the last record_outcome call and what it returned
    lreq,           \* the decision request in progress: inputs, position, decision
    nlog,           \* decision requests begun so far
    next_audit,     \* the next audit id the policy functions generate
    exp_assigned,   \* ExperimentAssignment rows committed by decision requests
    feature_rows,   \* online_features rows, by entity id
    effects,        \* the commits of the request in progress, in order
    primary,        \* approval_rules of the primary store (Lakebase), by rule id
    secondary,      \* approval rules of the secondary store (Lakehouse)
    sync_tasks,     \* background sync tasks scheduled and not yet run
    nops,           \* rule operations done on the primary store
    sync_failed,    \* some sync task was skipped or failed
    proposals,      \* ProposedConfigChange rows, by id
    applied_cfg,    \* proposals whose change was written to the config tables
    prop_resp,      \* the last response of review_proposal
    rev,            \* review_proposal calls in progress, one per operator
    cfg,            \* the targeted row of each config table
    nrev,           \* review_proposal calls begun so far
    rev_ok,         \* per proposal, the reviews answered with 200
    rev_writes,     \* per proposal, the commits that wrote its change to a config table
    applied_snap,   \* per proposal, the targeted row when status "applied" was committed
    srule,          \* the approval rule in the store: "active" or "gone"
    gone_at,        \* the time at which it was deleted or deactivated
    eval_start,     \* the time at which each caller's _evaluate_rules began
    param_rows,     \* decision_config rows handed to _params_from_config, by key
    param_out,      \* what _params_from_config did with them
    store_ver,      \* the version of the decision_config rows in the store
    pcache,         \* _config_cache: the snapshot it holds and whether it is stale
    preq,           \* decide_* calls in progress: position, local params, values used
    nsnap           \* decide_* calls begun so far

cacheVars == <<now, cache, lock, pc, frame, obs, loads, calls, has_runtime>>
assignVars == <<experiments, assignments, req, first_variant, nreq>>
bucketVars == <<bclock, brows, runs>>
decideVars == <<dreq, dcalls, elapsed, objs, dicts, decision>>
rulesVars == <<rreq, rtable, rcache, matching, rdec>>
routeVars == <<route_rows, routes>>
resultsVars == <<exp_rows, exp_results>>
outcomeVars == <<decision_log, outcomes, out_obs>>
logVars == <<lreq, nlog, next_audit, exp_assigned, feature_rows, effects>>
syncVars == <<primary, secondary, sync_tasks, nops, sync_failed>>
proposalVars == <<proposals, applied_cfg, prop_resp>>
reviewVars == <<rev, cfg, nrev, rev_ok, rev_writes, applied_snap>>
staleVars == <<srule, gone_at, eval_start>>
paramVars == <<param_rows, param_out>>
snapVars == <<store_ver, pcache, preq, nsnap>>
lastVars == <<reviewVars, staleVars, paramVars, snapVars>>
moreVars == <<routeVars, resultsVars, outcomeVars, logVars, syncVars, proposalVars, lastVars>>
laterVars == <<bucketVars, decideVars, rulesVars, moreVars>>
vars == <<now, cache, lock, pc, frame, obs, loads, calls, has_runtime,
          experiments, assignments, req, first_variant, nreq, laterVars>>

\* _CacheEntry.is_stale, evaluated at the current time
is_stale_lax(k) == (now - cache[k].fetched_at) >= CACHE_TTL_SECONDS
is_stale(k) == (now - cache[k].fetched_at) > CACHE_TTL_SECONDS

\* The first test of every loader: "not is_stale and data is not None"
CacheHit(k) == ~is_stale(k) /\ cache[k].data # NoSnapshot

\* The snapshot a loader builds from the rows it read:
\*   config         _params_from_config(rows) if rows else DecisionParams()
\*   decline_codes  _decline_codes_map(rows) if rows else {}
\*   routes         _route_scores_list(rows) if rows else []
\*   rules          the row list itself, [] when nothing was read
BuildSnapshot(k, rows) ==
    IF rows = "empty"
    THEN [kind |-> k, src |-> "defaults", rows |-> "empty"]
    ELSE [kind |-> k, src |-> "rows", rows |-> rows]

\* The value a loader returns for a snapshot: the snapshot itself, and for
\* _load_rules the list filtered by rule_type.
Returned(k, snap, rule_type) ==
    [snap |-> snap, filter |-> IF k = "rules" THEN rule_type ELSE None]

\* Whether the refresh of kind k runs inside "with _cache_lock"
UsesLock(k) == k = "config"

\* Where a loader goes after its first test
AfterFirstCheckLocked(k, hit, rt) ==
    IF UsesLock(k) THEN "acquire"
    ELSE IF hit THEN "done"
    ELSE IF rt THEN "read" ELSE "write_data"
AfterFirstCheck(k, hit, rt) ==
    IF hit THEN "done"
    ELSE IF UsesLock(k) THEN "acquire"
    ELSE IF rt THEN "read" ELSE "write_data"

\* The entry of kind k is populated and at most one TTL old
WithinTTL(k) ==
    /\ cache[k].data # NoSnapshot
    /\ now - cache[k].fetched_at <= CACHE_TTL_SECONDS

\* The entry of kind k holds the snapshot of a completed refresh: no caller
\* is between the write of its data and the write of its fetched_at
Settled(k) ==
    \A u \in Threads : ~(pc[u] = "write_time" /\ frame[u].kind = k)

NoFrame == [kind |-> None, rule_type |-> None,
            rows |-> "empty", snap |-> NoSnapshot, ret |-> NoReturn]
NoObs == [hit |-> FALSE, took_lock |-> FALSE, loaded |-> FALSE,
          raised |-> FALSE, prev |-> NoSnapshot, seen |-> NoSnapshot, lock_busy |-> FALSE]

InitCache ==
    /\ now = 0
    /\ cache = [k \in Kinds |-> [data |-> NoSnapshot, fetched_at |-> 0]]
    /\ lock = NoThread
    /\ pc = [t \in Threads |-> "idle"]
    /\ frame = [t \in Threads |-> NoFrame]
    /\ obs = [t \in Threads |-> NoObs]
    /\ loads = [k \in Kinds |-> 0]
    /\ calls = 0
    /\ has_runtime \in BOOLEAN

\* The clock advances.
Tick ==
    /\ \E d \in TickSteps :
          /\ now + d <= MaxTime
          /\ now' = now + d
    /\ UNCHANGED <<cache, lock, pc, frame, obs, loads, calls, has_runtime, assignVars, laterVars>>

\* A caller, idle or back from its previous call, enters a loader:
\* DecisionEngine(runtime=...)._load_<kind>(...)
Call(t) ==
    /\ pc[t] \in {"idle", "done"}
    /\ calls < MaxCalls
    /\ \E k \in Kinds, ty \in RuleTypes :
          frame' = [frame EXCEPT ![t] =
              [NoFrame EXCEPT !.kind = k,
                              !.rule_type = IF k = "rules" THEN ty ELSE None]]
    /\ pc' = [pc EXCEPT ![t] = "check"]
    /\ obs' = [obs EXCEPT ![t] = NoObs]
    /\ calls' = calls + 1
    /\ UNCHANGED <<now, cache, lock, loads, has_runtime, assignVars, laterVars>>

\* "if not <cache>.is_stale and <cache>.data is not None: return <cache>.data"
FirstCheck(t) ==
    /\ pc[t] = "check"
    /\ LET k == frame[t].kind
           hit == CacheHit(k)
           nxt == AfterFirstCheck(k, hit, has_runtime)
       IN /\ pc' = [pc EXCEPT ![t] = nxt]
          /\ frame' = [frame EXCEPT ![t].ret =
                 IF nxt = "done" THEN Returned(k, cache[k].data, frame[t].rule_type)
                 ELSE NoReturn]
          /\ obs' = [obs EXCEPT ![t].hit = WithinTTL(k),
                     ![t].seen = IF WithinTTL(k) THEN cache[k].data ELSE NoSnapshot,
                     ![t].lock_busy = WithinTTL(k) /\ lock # NoThread,
                     ![t].prev = IF Settled(k) THEN cache[k].data ELSE NoSnapshot]
    /\ UNCHANGED <<now, cache, lock, loads, calls, has_runtime, assignVars, laterVars>>

\* "with _cache_lock:" blocks until the lock is free
Acquire(t) ==
    /\ pc[t] = "acquire"
    /\ lock = NoThread
    /\ lock' = t
    /\ pc' = [pc EXCEPT ![t] = "recheck"]
    /\ obs' = [obs EXCEPT ![t].took_lock = TRUE]
    /\ UNCHANGED <<now, cache, frame, loads, calls, has_runtime, assignVars, laterVars>>

\* The double check under the lock; returning leaves the with block
SecondCheck(t) ==
    /\ pc[t] = "recheck"
    /\ LET k == frame[t].kind
       IN IF CacheHit(k)
          THEN /\ pc' = [pc EXCEPT ![t] = "done"]
               /\ frame' = [frame EXCEPT ![t].ret =
                      Returned(k, cache[k].data, frame[t].rule_type)]
               /\ lock' = NoThread
          ELSE /\ pc' = [pc EXCEPT ![t] =
                      IF has_runtime THEN "read" ELSE "write_data"]
               /\ UNCHANGED <<frame, lock>>
    /\ UNCHANGED <<now, cache, obs, loads, calls, has_runtime, assignVars, laterVars>>

\* The store read returns rows
ReadRows(t) ==
    /\ pc[t] = "read"
    /\ \E r \in RowSets : frame' = [frame EXCEPT ![t].rows = r]
    /\ pc' = [pc EXCEPT ![t] = "write_data"]
    /\ obs' = [obs EXCEPT ![t].loaded = TRUE]
    /\ loads' = [loads EXCEPT ![frame[t].kind] = @ + 1]
    /\ UNCHANGED <<now, cache, lock, calls, has_runtime, assignVars, laterVars>>

\* The store read raises (or, for rules, the reader returns None): the loader
\* catches it and goes on with the empty row list
ReadRaisesUncaught(t) ==
    /\ pc[t] = "read"
    /\ pc' = [pc EXCEPT ![t] = "failed"]
    /\ obs' = [obs EXCEPT ![t].loaded = TRUE, ![t].raised = TRUE]
    /\ lock' = IF lock = t THEN NoThread ELSE lock
    /\ loads' = [loads EXCEPT ![frame[t].kind] = @ + 1]
    /\ UNCHANGED <<now, cache, frame, calls, has_runtime, assignVars, laterVars>>
ReadRaises(t) ==
    /\ pc[t] = "read"
    /\ frame' = [frame EXCEPT ![t].rows = "empty"]
    /\ pc' = [pc EXCEPT ![t] = "write_data"]
    /\ obs' = [obs EXCEPT ![t].loaded = TRUE, ![t].raised = TRUE]
    /\ loads' = [loads EXCEPT ![frame[t].kind] = @ + 1]
    /\ UNCHANGED <<now, cache, lock, calls, has_runtime, assignVars, laterVars>>

\* "<cache>.data = <snapshot built from rows>"
WriteData(t) ==
    /\ pc[t] = "write_data"
    /\ LET k == frame[t].kind
           snap == BuildSnapshot(k, frame[t].rows)
       IN /\ frame' = [frame EXCEPT ![t].snap = snap]
          /\ cache' = [cache EXCEPT ![k].data = snap]
    /\ pc' = [pc EXCEPT ![t] = "write_time"]
    /\ UNCHANGED <<now, lock, obs, loads, calls, has_runtime, assignVars, laterVars>>

\* "<cache>.fetched_at = time.monotonic(); return <snapshot>"
WriteTime(t) ==
    /\ pc[t] = "write_time"
    /\ LET k == frame[t].kind
       IN /\ cache' = [cache EXCEPT ![k].fetched_at = now]
          /\ frame' = [frame EXCEPT ![t].ret =
                 Returned(k, frame[t].snap, frame[t].rule_type)]
          /\ loads' = [loads EXCEPT ![k] = 0]
    /\ lock' = IF lock = t THEN NoThread ELSE lock
    /\ pc' = [pc EXCEPT ![t] = "done"]
    /\ UNCHANGED <<now, obs, calls, has_runtime, assignVars, laterVars>>

\* ------------------------------------------------------------------------
\* Experiment store: constants and state
\* ------------------------------------------------------------------------
Clients == 1..NumClients
ExpIds == {"e1"}
Subjects == {"s1", "s3"}
Variants == {"control", "treatment"}

\* hashlib.sha256(subject_key.encode()).digest()[-1] of the subject keys used
HashLastByte(s) ==
    CASE s = "s1" -> 204 [] s = "s3" -> 187 [] s = "m1" -> 25
      [] s = "e1" -> 170 [] s = "e2" -> 235

\* "treatment" if (last byte % 2 == 1) else "control"
BucketVariant(s) ==
    IF HashLastByte(s) % 2 = 1 THEN "treatment" ELSE "control"

\* The variant line of _get_or_assign_variant, in the scope of its arguments
\* experiment_id and subject_key
NewVariantSalted(experiment_id, subject_key) ==
    IF (HashLastByte(experiment_id) + HashLastByte(subject_key)) % 2 = 1
    THEN "treatment" ELSE "control"
NewVariant(experiment_id, subject_key) == BucketVariant(subject_key)

\* "not exp or exp.status not in {running, draft}", negated; a missing row
\* is read as status "missing"
AssignableIfPresent(status) == status # "missing"
Assignable(status) == status \in {"running", "draft"}

\* "not experiment_id or not subject_key"
Falsy(x) == x = None \/ x = ""

\* The calls made without an experiment id or with an empty subject key
FalsyInputs == {<<None, "s1">>, <<"e1", "">>}

\* The values an assignment row can hold
RowValues == ExpIds \X Subjects \X Variants

\* The variants found in the rows of a pair, and the number of its rows
VariantsOf(e, s) == {v \in Variants : assignments[<<e, s, v>>] > 0}
RowCount(e, s) ==
    LET Sum[V \in SUBSET Variants] ==
            IF V = {} THEN 0
            ELSE LET v == CHOOSE x \in V : TRUE
                 IN assignments[<<e, s, v>>] + Sum[V \ {v}]
    IN Sum[Variants]

\* session.add(ExperimentAssignment(...)); session.commit()
AddRow(e, s, v) == [assignments EXCEPT ![<<e, s, v>>] = @ + 1]

NoReq == [op |-> "none", pc |-> "idle", experiment_id |-> None, subject_key |-> None,
          variant |-> None, ret |-> None,
          saw_none |-> FALSE, saw_unassignable |-> FALSE, inserted |-> FALSE]

InitAssignIdle ==
    /\ experiments = [e \in ExpIds |-> "missing"]
    /\ assignments = [r \in RowValues |-> 0]
    /\ req = [c \in Clients |-> NoReq]
    /\ first_variant = [e \in ExpIds |-> [s \in Subjects |-> None]]
    /\ nreq = 0

\* create_experiment: a new row, status "draft" by default
CreateExperiment(e) ==
    /\ experiments[e] = "missing"
    /\ experiments' = [experiments EXCEPT ![e] = "draft"]
    /\ UNCHANGED <<assignments, req, first_variant, nreq, cacheVars, laterVars>>

\* start_experiment: 404 when missing, else status = "running"
StartExperiment(e) ==
    /\ experiments[e] # "missing"
    /\ experiments' = [experiments EXCEPT ![e] = "running"]
    /\ UNCHANGED <<assignments, req, first_variant, nreq, cacheVars, laterVars>>

\* stop_experiment: 404 when missing, else status = "stopped"
StopExperiment(e) ==
    /\ experiments[e] # "missing"
    /\ experiments' = [experiments EXCEPT ![e] = "stopped"]
    /\ UNCHANGED <<assignments, req, first_variant, nreq, cacheVars, laterVars>>

\* A client, idle or done with its previous request, serves a decision
\* request that enters _get_or_assign_variant(session, experiment_id,
\* subject_key); "if not experiment_id or not subject_key: return None"
BeginGetOrAssign(c) ==
    /\ req[c].pc \in {"idle", "done"}
    /\ nreq < MaxRequests
    /\ \E e \in ExpIds \cup {None}, s \in Subjects \cup {""} :
          /\ (Falsy(e) \/ Falsy(s)) => <<e, s>> \in FalsyInputs
          /\ req' = [req EXCEPT ![c] =
              [NoReq EXCEPT !.op = "get_or_assign",
                            !.experiment_id = e, !.subject_key = s,
                            !.pc = IF Falsy(e) \/ Falsy(s) THEN "done" ELSE "select"]]
    /\ nreq' = nreq + 1
    /\ UNCHANGED <<experiments, assignments, first_variant, cacheVars, laterVars>>

\* "assignment = session.exec(select(...).limit(1)).first()": any one of the
\* rows of the pair (the query has no ORDER BY); "if assignment: return
\* assignment.variant"
SelectAssignment(c) ==
    /\ req[c].pc = "select"
    /\ LET e == req[c].experiment_id
           s == req[c].subject_key
       IN IF VariantsOf(e, s) = {}
          THEN /\ req' = [req EXCEPT ![c].pc = "get_exp", ![c].saw_none = TRUE]
               /\ UNCHANGED first_variant
          ELSE \E v \in VariantsOf(e, s) :
               /\ req' = [req EXCEPT ![c].pc = "done", ![c].ret = v]
               /\ first_variant' =
                      IF first_variant[e][s] = None
                      THEN [first_variant EXCEPT ![e][s] = v]
                      ELSE first_variant
    /\ UNCHANGED <<experiments, assignments, nreq, cacheVars, laterVars>>

\* "exp = session.get(Experiment, experiment_id)"; return None when it is
\* not assignable, else compute the variant from the subject key
GetExperiment(c) ==
    /\ req[c].pc = "get_exp"
    /\ LET status == experiments[req[c].experiment_id]
       IN req' = [req EXCEPT
              ![c].saw_unassignable = status \notin {"running", "draft"},
              ![c].pc = IF Assignable(status) THEN "insert" ELSE "done",
              ![c].variant = IF Assignable(status)
                             THEN NewVariant(req[c].experiment_id, req[c].subject_key)
                             ELSE None]
    /\ UNCHANGED <<experiments, assignments, first_variant, nreq, cacheVars, laterVars>>

\* "session.add(ExperimentAssignment(...)); session.commit(); return variant"
InsertAssignment(c) ==
    /\ req[c].pc = "insert"
    /\ LET e == req[c].experiment_id
           s == req[c].subject_key
       IN /\ assignments' = AddRow(e, s, req[c].variant)
          /\ req' = [req EXCEPT ![c].pc = "done", ![c].ret = req[c].variant,
                                ![c].inserted = TRUE]
          /\ first_variant' =
                 IF first_variant[e][s] = None
                 THEN [first_variant EXCEPT ![e][s] = req[c].variant]
                 ELSE first_variant
    /\ UNCHANGED <<experiments, nreq, cacheVars, laterVars>>

\* POST /{experiment_id}/assign enters assign(experiment_id, payload)
BeginAssign(c) ==
    /\ req[c].pc \in {"idle", "done"}
    /\ nreq < MaxRequests
    /\ \E e \in ExpIds, s \in Subjects, v \in Variants :
          req' = [req EXCEPT ![c] =
              [NoReq EXCEPT !.op = "assign", !.experiment_id = e,
                            !.subject_key = s, !.variant = v, !.pc = "assign_get"]]
    /\ nreq' = nreq + 1
    /\ UNCHANGED <<experiments, assignments, first_variant, cacheVars, laterVars>>

\* assign: "exp = session.get(...)"; 404 when missing, 400 when the status is
\* not in {running, draft}
AssignGetExperiment(c) ==
    /\ req[c].pc = "assign_get"
    /\ LET status == experiments[req[c].experiment_id]
       IN req' = [req EXCEPT
              ![c].pc = IF status \in {"running", "draft"} THEN "assign_insert" ELSE "done",
              ![c].ret = IF status = "missing" THEN "404"
                         ELSE IF status \in {"running", "draft"} THEN None ELSE "400"]
    /\ UNCHANGED <<experiments, assignments, first_variant, nreq, cacheVars, laterVars>>

\* assign: "session.add(assignment); session.commit()"
AssignInsert(c) ==
    /\ req[c].pc = "assign_insert"
    /\ assignments' = AddRow(req[c].experiment_id, req[c].subject_key, req[c].variant)
    /\ req' = [req EXCEPT ![c].pc = "done", ![c].ret = "created",
                          ![c].inserted = TRUE]
    /\ UNCHANGED <<experiments, first_variant, nreq, cacheVars, laterVars>>

\* ------------------------------------------------------------------------
\* A decision request: constants and state
\* ------------------------------------------------------------------------
DecisionTypes == {"authentication", "retry", "routing"}

\* DecisionParams.ml_enrichment_timeout_ms, and the grain of the clock
ML_ENRICHMENT_TIMEOUT_MS == 2000
TickMs == 1000
\* latency of a call that never answers
Never == 0 - 1

CallNames == {"similar", "risk", "approval", "retry_ml", "routing_ml"}
ScoringCalls == CallNames \ {"similar"}

\* The calls each decide_* method awaits in its gather
CallsOf(decision_type) ==
    CASE decision_type = "authentication" -> {"similar", "risk", "approval"}
      [] decision_type = "retry" -> {"similar", "retry_ml"}
      [] decision_type = "routing" -> {"similar", "routing_ml"}

\* What a service call does once issued: answer after latency ms, raise
\* after latency ms, or never answer
CallOutcomes ==
    {[latency |-> TickMs, fails |-> FALSE],
     [latency |-> TickMs, fails |-> TRUE],
     [latency |-> ML_ENRICHMENT_TIMEOUT_MS + TickMs, fails |-> FALSE],
     [latency |-> Never, fails |-> FALSE]}

\* The metadata keys each result is merged under
KeysOf(name) ==
    CASE name = "similar" -> {"vs_similar_count", "vs_similar_avg_approval_rate",
                              "vs_similar_top_route", "vs_similar_avg_fraud_score"}
      [] name = "risk" -> {"ml_risk_score", "ml_risk_tier"}
      [] name = "approval" -> {"ml_approval_probability", "ml_model_version"}
      [] name = "retry_ml" -> {"ml_retry_probability", "ml_should_retry",
                               "ml_model_version"}
      [] name = "routing_ml" -> {"ml_recommended_route", "ml_route_confidence",
                                 "ml_route_alternatives"}
RecKeys(decision_type) ==
    IF decision_type = "authentication"
    THEN {"agent_recommendation", "agent_confidence", "agent_expected_impact"}
    ELSE {"agent_recommendation", "agent_confidence"}
StreamKeys == {"stream_approval_rate_5m"}

NoCall == [state |-> "none", issued |-> 0, started |-> 0,
           latency |-> Never, fails |-> FALSE, late |-> FALSE]
NoDecision == [source |-> None, input |-> 0, params |-> None, variant |-> None,
               seen |-> {}, risk_score |-> None, reason |-> None]
NoDecide == [pc |-> "idle", decision_type |-> None, enabled |-> FALSE,
             service |-> None, variant |-> None, enriched |-> 0,
             wait_ms |-> 0, raised_at |-> None,
             ctx0 |-> [risk_score |-> None, metadata |-> {}]]

\* The caller's DecisionContext is object 1, its metadata dict is dict 1
CtxRef == 1
CtxShapes ==
    {[risk_score |-> None, metadata |-> {}],
     [risk_score |-> "given", metadata |-> {"merchant_segment"}]}

InitDecideIdle ==
    /\ dreq = NoDecide
    /\ dcalls = [n \in CallNames |-> NoCall]
    /\ elapsed = 0
    /\ objs = <<>>
    /\ dicts = <<>>
    /\ decision = NoDecision

\* ------------------------------------------------------------------------
\* _engine_decide and the decide_* methods of DecisionEngine, step by step
\* ------------------------------------------------------------------------

\* "not params.ml_enrichment_enabled or not self._service or not
\* self._service.is_available", negated: the guard of every scoring call;
\* the similarity lookup tests the service only
IssuesIgnoringFlag(name) ==
    /\ name \in CallsOf(dreq.decision_type)
    /\ dreq.service = "available"
    /\ (name \in {"risk", "approval"} => dreq.enabled)
Issues(name) ==
    /\ name \in CallsOf(dreq.decision_type)
    /\ dreq.service = "available"
    /\ (name \in ScoringCalls => dreq.enabled)

\* asyncio.gather: every call of the request is started before the request
\* suspends
CanIssueInTurn(name) ==
    /\ Issues(name)
    /\ dcalls[name].state = "none"
    /\ \A n \in CallNames : dcalls[n].state # "pending"
CanIssue(name) ==
    /\ Issues(name)
    /\ dcalls[name].state = "none"

Pending(name) == dcalls[name].state = "pending"

\* The service has answered (or raised); the wait_for deadline has passed
AnswerDue(name) ==
    /\ Pending(name)
    /\ dcalls[name].latency # Never
    /\ elapsed - dcalls[name].started >= dcalls[name].latency
TimeoutDue(name) ==
    /\ Pending(name)
    /\ elapsed - dcalls[name].started >= ML_ENRICHMENT_TIMEOUT_MS

\* asyncio.wait_for on timeout: the call is cancelled, TimeoutError is
\* caught by "except Exception" and the wrapper returns None / {}
OnTimeoutRetry(c) == [c EXCEPT !.state = "none"]
OnTimeout(c) == [c EXCEPT !.state = "timed_out"]

\* "except Exception: ... return None": the request goes on awaiting
AfterCallErrorAbort(r) == [r EXCEPT !.pc = "fallback", !.raised_at = "call"]
AfterCallError(r) == r

\* ctx.model_copy() followed by "enriched = <the copy>": m is the heap and
\* the object the local "enriched" refers to
CopyAlias(m) == m
Copy(m) ==
    [m EXCEPT !.objs = Append(m.objs, m.objs[m.cur]), !.cur = Len(m.objs) + 1]

\* "enriched.metadata = {**enriched.metadata, ...}": a new dict is built and
\* the attribute of the object is rebound to it
SetMetadata(m, keys) ==
    [m EXCEPT !.dicts = Append(m.dicts, m.dicts[m.objs[m.cur].md] \cup keys),
              !.objs[m.cur].md = Len(m.dicts) + 1]

\* "if ml_risk is not None and enriched.risk_score is None:
\*      enriched.risk_score = float(ml_risk)"
SetRiskIfNone(m) ==
    IF m.objs[m.cur].risk_score = None
    THEN [m EXCEPT !.objs[m.cur].risk_score = "ml"]
    ELSE m

Got(name) == dcalls[name].state = "returned"

\* _enrich_with_ml: returns ctx itself when the guard fails, else a copy
\* carrying the risk and approval results that came back
EnrichWithMl(m) ==
    IF ~Issues("risk") THEN m
    ELSE LET m1 == Copy(m)
             m2 == IF Got("risk")
                   THEN SetMetadata(SetRiskIfNone(m1), KeysOf("risk")) ELSE m1
         IN IF Got("approval") THEN SetMetadata(m2, KeysOf("approval")) ELSE m2

\* "if vs_context: enriched = enriched.model_copy(); enriched.metadata = ..."
\* (decide_retry, decide_routing: "enriched = ctx.model_copy() if vs_context
\* else ctx")
MergeSimilar(m) ==
    IF Got("similar") THEN SetMetadata(Copy(m), KeysOf("similar")) ELSE m

\* "if recs: enriched = enriched.model_copy(); enriched.metadata = ..."
MergeRecs(m, has_recs) ==
    IF has_recs THEN SetMetadata(Copy(m), RecKeys(dreq.decision_type)) ELSE m

\* "if streaming: enriched = enriched.model_copy(); ..." (authentication)
MergeStreaming(m, has_streaming) ==
    IF has_streaming THEN SetMetadata(Copy(m), StreamKeys) ELSE m

\* "if retry_result: ... enriched = enriched.model_copy(); ..." and the
\* same for routing_result
MergeScoring(m, name) ==
    IF Got(name) THEN SetMetadata(Copy(m), KeysOf(name)) ELSE m

\* The enriched context each decide_* method hands to its policy function
Enriched(m, has_recs, has_streaming) ==
    CASE dreq.decision_type = "authentication" ->
            MergeStreaming(MergeRecs(MergeSimilar(EnrichWithMl(m)), has_recs),
                           has_streaming)
      [] dreq.decision_type = "retry" ->
            MergeScoring(MergeRecs(MergeSimilar(m), has_recs), "retry_ml")
      [] dreq.decision_type = "routing" ->
            MergeScoring(MergeRecs(MergeSimilar(m), has_recs), "routing_ml")

\* The policy function of the request's type applied to the context object
\* o of heap m, with the given variant and params
Policy(m, o, variant, params, source) ==
    [source |-> source, input |-> o, params |-> params, variant |-> variant,
     seen |-> m.dicts[m.objs[o].md], risk_score |-> m.objs[o].risk_score,
     reason |-> "policy"]

\* The decision object a policy function returns
PolicyDecision(ty) ==
    [audit_id |-> "a1", fields |-> "policy",
     reason |-> [by |-> "policy", rule |-> 0], metadata |-> {}]

NoRules == [pc |-> "idle", decision_type |-> None, enabled |-> FALSE,
            load_ok |-> FALSE, rules |-> <<>>, idx |-> 0,
            evaluated |-> {}, applied |-> 0]

InitRulesIdle ==
    /\ rreq = NoRules
    /\ rtable = <<>>
    /\ rcache = <<>>
    /\ matching = <<>>
    /\ rdec = PolicyDecision("authentication")

InitBucketIdle ==
    /\ bclock = 0
    /\ brows = {}
    /\ runs = <<>>

InitRoutesIdle ==
    /\ route_rows = <<>>
    /\ routes = <<>>

NoVariantRows ==
    [subjects |-> 0, decisions |-> 0, outcomes |-> 0, approved |-> 0, timed |-> 0]

InitResultsIdle ==
    /\ exp_rows = [exists |-> FALSE, control |-> NoVariantRows, treatment |-> NoVariantRows]
    /\ exp_results = [called |-> FALSE]

NoOutcomeCall == [called |-> FALSE]

InitOutcomeIdle ==
    /\ decision_log = <<>>
    /\ outcomes = <<>>
    /\ out_obs = NoOutcomeCall

NoLogDecision == [audit_id |-> 0, source |-> "None", reason |-> "None"]
NoLogReq ==
    [pc |-> "idle", decision_type |-> "None", experiment_id |-> "None",
     subject_key |-> "None", has_ml |-> FALSE, rule |-> FALSE, variant |-> "None", decision |-> NoLogDecision,
     write |-> "none", engine_raised |-> FALSE]

InitLogIdle ==
    /\ lreq = NoLogReq
    /\ nlog = 0
    /\ next_audit = 1
    /\ exp_assigned = {}
    /\ feature_rows = {}
    /\ effects = <<>>

SyncIds == {"r1", "r2"}
NoRow == [present |-> FALSE, priority |-> 0, is_active |-> FALSE]

InitSyncIdle ==
    /\ primary = [i \in SyncIds |-> NoRow]
    /\ secondary = [i \in SyncIds |-> NoRow]
    /\ sync_tasks = {}
    /\ nops = 0
    /\ sync_failed = FALSE

PropIds == {"p1", "p2"}
NoProposal == [status |-> "absent", change_type |-> "None", parses |-> FALSE]

InitProposalIdle ==
    /\ proposals = [i \in PropIds |-> NoProposal]
    /\ applied_cfg = {}
    /\ prop_resp = [proposal |-> "None", code |-> 0]

Operators == {"o1", "o2"}
CfgTables == {"decision_config", "decline_code", "route_performance"}
NoReview ==
    [pc |-> "idle", id |-> "None", action |-> "None", status |-> "None", write |-> "none"]

InitReviewIdle ==
    /\ rev = [o \in Operators |-> NoReview]
    /\ cfg = [t \in CfgTables |-> "absent"]
    /\ nrev = 0
    /\ rev_ok = [i \in PropIds |-> 0]
    /\ rev_writes = [i \in PropIds |-> 0]
    /\ applied_snap = [i \in PropIds |-> "never"]

InitStaleIdle ==
    /\ srule = "active"
    /\ gone_at = Never
    /\ eval_start = [t \in Threads |-> Never]

ParamKeys == {"risk_threshold_high", "retry_max_attempts_control", "ml_enrichment_enabled"}
\* no row of that key in the table
Absent == "<absent>"
NoParamsOut == [called |-> FALSE, raised |-> "none", params |-> [k \in ParamKeys |-> "unset"]]

InitParamsIdle ==
    /\ param_rows = [k \in ParamKeys |-> Absent]
    /\ param_out = NoParamsOut

SnapClients == {"a", "b"}
\* "_config_cache.data is None", DecisionParams() and the params built from
\* version ver of the rows
NoParams == [src |-> "None", ver |-> 0]
DefaultParams == [src |-> "defaults", ver |-> 0]
ParamsOfRows(ver) == [src |-> "rows", ver |-> ver]
NoSnapReq == [pc |-> "idle", params |-> NoParams, at_start |-> NoParams,
              uses |-> {}, overtaken |-> FALSE]

InitSnapIdle ==
    /\ store_ver = 1
    /\ pcache = [data |-> NoParams, stale |-> FALSE]
    /\ preq = [c \in SnapClients |-> NoSnapReq]
    /\ nsnap = 0

InitLastIdle == InitReviewIdle /\ InitStaleIdle /\ InitParamsIdle /\ InitSnapIdle

InitMoreIdle ==
    /\ InitRoutesIdle /\ InitResultsIdle /\ InitOutcomeIdle /\ InitLogIdle
    /\ InitSyncIdle /\ InitProposalIdle /\ InitLastIdle

InitLaterIdle == InitBucketIdle /\ InitDecideIdle /\ InitRulesIdle /\ InitMoreIdle

NextAssign ==
    \/ \E e \in ExpIds : CreateExperiment(e)
    \/ \E e \in ExpIds : StartExperiment(e)
    \/ \E e \in ExpIds : StopExperiment(e)
    \/ \E c \in Clients : BeginGetOrAssign(c)
    \/ \E c \in Clients : SelectAssignment(c)
    \/ \E c \in Clients : GetExperiment(c)
    \/ \E c \in Clients : InsertAssignment(c)
    \/ \E c \in Clients : BeginAssign(c)
    \/ \E c \in Clients : AssignGetExperiment(c)
    \/ \E c \in Clients : AssignInsert(c)

InitAssign == InitCache /\ has_runtime /\ InitAssignIdle /\ InitLaterIdle
SpecAssign == InitAssign /\ [][NextAssign]_vars

NextCache ==
    \/ Tick
    \/ \E t \in Threads : Call(t)
    \/ \E t \in Threads : FirstCheck(t)
    \/ \E t \in Threads : Acquire(t)
    \/ \E t \in Threads : SecondCheck(t)
    \/ \E t \in Threads : ReadRows(t)
    \/ \E t \in Threads : ReadRaises(t)
    \/ \E t \in Threads : WriteData(t)
    \/ \E t \in Threads : WriteTime(t)

InitCacheSpec == InitCache /\ InitAssignIdle /\ InitLaterIdle
SpecCache == InitCacheSpec /\ [][NextCache]_vars

\* ------------------------------------------------------------------------
\* The bucketing expression of _get_or_assign_variant, evaluated for new
\* assignments of several experiments and subjects at several times
\* ------------------------------------------------------------------------
BucketExpIds == {"e1", "e2"}
BucketSubjects == {"s1", "s3", "m1"}

\* A new assignment: the call found no row to return, computes the variant,
\* stores the row (session.add, session.commit) and returns the variant
NewAssignment(e, s) ==
    /\ Len(runs) < MaxRuns
    /\ LET v == NewVariant(e, s)
       IN /\ brows' = brows \cup {<<e, s, v>>}
          /\ runs' = Append(runs, [experiment_id |-> e, subject_key |-> s,
                                   at |-> bclock, stored |-> Cardinality(brows),
                                   variant |-> v])
    /\ UNCHANGED <<bclock, cacheVars, assignVars, decideVars, rulesVars, moreVars>>

\* Time passes between two calls
BucketTick ==
    /\ bclock < MaxBucketTime
    /\ bclock' = bclock + 1
    /\ UNCHANGED <<brows, runs, cacheVars, assignVars, decideVars, rulesVars, moreVars>>

NextBucket ==
    \/ BucketTick
    \/ \E e \in BucketExpIds, s \in BucketSubjects : NewAssignment(e, s)

InitBucket == InitCache /\ has_runtime /\ InitAssignIdle /\ InitLaterIdle
SpecBucket == InitBucket /\ [][NextBucket]_vars

\* A decision route calls _engine_decide(decision_type, ctx, session,
\* service, runtime) with a validated context
BeginDecide ==
    /\ dreq.pc = "idle"
    /\ \E ty \in DecisionTypes, en \in BOOLEAN,
          sv \in {"none", "unavailable", "available"}, shape \in CtxShapes :
          /\ dreq' = [NoDecide EXCEPT !.pc = "variant", !.decision_type = ty,
                                      !.enabled = en, !.service = sv,
                                      !.enriched = CtxRef, !.ctx0 = shape]
          /\ objs' = <<[risk_score |-> shape.risk_score, md |-> 1]>>
          /\ dicts' = <<shape.metadata>>
    /\ UNCHANGED <<dcalls, elapsed, decision, cacheVars, assignVars, bucketVars, rulesVars, moreVars>>

\* "variant = _get_or_assign_variant(...)"; "variant if variant is not None
\* else 'control'"
ResolveVariant ==
    /\ dreq.pc = "variant"
    /\ \E v \in Variants : dreq' = [dreq EXCEPT !.pc = "load", !.variant = v]
    /\ UNCHANGED <<dcalls, elapsed, objs, dicts, decision,
                   cacheVars, assignVars, bucketVars, rulesVars, moreVars>>

\* The store raises inside _get_or_assign_variant (session.exec, session.get
\* or session.commit), which _engine_decide calls outside its try
VariantRaises ==
    /\ dreq.pc = "variant"
    /\ dreq' = [dreq EXCEPT !.pc = "raised", !.raised_at = "variant"]
    /\ UNCHANGED <<dcalls, elapsed, objs, dicts, decision,
                   cacheVars, assignVars, bucketVars, rulesVars, moreVars>>

\* "engine = DecisionEngine(...)"; decide_*: "params = self._load_config()"
\* and the datasets of the type; the method then reaches its gather
LoadParams ==
    /\ dreq.pc = "load"
    /\ dreq' = [dreq EXCEPT !.pc = "gather"]
    /\ elapsed' = 0
    /\ UNCHANGED <<dcalls, objs, dicts, decision, cacheVars, assignVars, bucketVars, rulesVars, moreVars>>

\* An error the engine does not catch, here in _params_from_config (_int
\* catches ValueError and TypeError only): "except Exception" of
\* _engine_decide takes the request to the fallback
LoadRaises ==
    /\ dreq.pc = "load"
    /\ dreq' = [dreq EXCEPT !.pc = "fallback", !.raised_at = "engine"]
    /\ UNCHANGED <<dcalls, elapsed, objs, dicts, decision,
                   cacheVars, assignVars, bucketVars, rulesVars, moreVars>>

\* One call of the gather is started: asyncio.wait_for(self._service.<call>,
\* timeout); what the service will do is not known to the engine
IssueCall(name) ==
    /\ dreq.pc = "gather"
    /\ CanIssue(name)
    /\ \E o \in CallOutcomes :
          dcalls' = [dcalls EXCEPT ![name] =
              [state |-> "pending", issued |-> dcalls[name].issued + 1,
               started |-> elapsed, latency |-> o.latency, fails |-> o.fails,
               late |-> FALSE]]
    /\ UNCHANGED <<dreq, elapsed, objs, dicts, decision,
                   cacheVars, assignVars, bucketVars, rulesVars, moreVars>>

\* The service answers within the timeout
CallReturns(name) ==
    /\ dreq.pc = "gather"
    /\ AnswerDue(name) /\ ~dcalls[name].fails
    /\ dcalls' = [dcalls EXCEPT ![name].state = "returned"]
    /\ UNCHANGED <<dreq, elapsed, objs, dicts, decision,
                   cacheVars, assignVars, bucketVars, rulesVars, moreVars>>

\* The service raises within the timeout
CallRaises(name) ==
    /\ dreq.pc = "gather"
    /\ AnswerDue(name) /\ dcalls[name].fails
    /\ dcalls' = [dcalls EXCEPT ![name].state = "raised"]
    /\ dreq' = AfterCallError(dreq)
    /\ UNCHANGED <<elapsed, objs, dicts, decision, cacheVars, assignVars, bucketVars, rulesVars, moreVars>>

\* The deadline of wait_for passes first
CallTimesOut(name) ==
    /\ dreq.pc = "gather"
    /\ TimeoutDue(name)
    /\ dcalls' = [dcalls EXCEPT ![name] = OnTimeout(dcalls[name])]
    /\ UNCHANGED <<dreq, elapsed, objs, dicts, decision,
                   cacheVars, assignVars, bucketVars, rulesVars, moreVars>>

\* The answer of a call that was cancelled on timeout arrives: nothing
\* awaits it any more
LateResult(name) ==
    /\ dcalls[name].state = "timed_out"
    /\ dcalls[name].latency # Never
    /\ ~dcalls[name].late
    /\ dcalls' = [dcalls EXCEPT ![name].late = TRUE]
    /\ UNCHANGED <<dreq, elapsed, objs, dicts, decision,
                   cacheVars, assignVars, bucketVars, rulesVars, moreVars>>

\* Time passes while the request is suspended: no call is left to start and
\* no answer or deadline is due
DecideTick ==
    /\ dreq.pc = "gather"
    /\ elapsed < MaxElapsed
    /\ \E n \in CallNames : Pending(n)
    /\ \A n \in CallNames : ~CanIssue(n) /\ ~AnswerDue(n) /\ ~TimeoutDue(n)
    /\ elapsed' = elapsed + TickMs
    /\ UNCHANGED <<dreq, dcalls, objs, dicts, decision,
                   cacheVars, assignVars, bucketVars, rulesVars, moreVars>>

\* asyncio.gather returns: every call of the request has returned, raised
\* or timed out
EndGather ==
    /\ dreq.pc = "gather"
    /\ \A n \in CallNames : ~CanIssue(n) /\ ~Pending(n)
    /\ dreq' = [dreq EXCEPT !.pc = "merge", !.wait_ms = elapsed]
    /\ UNCHANGED <<dcalls, elapsed, objs, dicts, decision,
                   cacheVars, assignVars, bucketVars, rulesVars, moreVars>>

\* The results are merged and the policy function runs on the enriched
\* context with the loaded params
DecideOnEnriched ==
    /\ dreq.pc = "merge"
    /\ \E has_recs \in BOOLEAN, has_streaming \in BOOLEAN :
          /\ has_streaming => dreq.decision_type = "authentication"
          /\ LET m == Enriched([objs |-> objs, dicts |-> dicts, cur |-> CtxRef],
                               has_recs, has_streaming)
             IN /\ objs' = m.objs
                /\ dicts' = m.dicts
                /\ dreq' = [dreq EXCEPT !.pc = "rules", !.enriched = m.cur]
                /\ decision' = Policy(m, m.cur, dreq.variant, "loaded", "engine")
    /\ UNCHANGED <<dcalls, elapsed, cacheVars, assignVars, bucketVars, rulesVars, moreVars>>

\* "if params.rule_engine_enabled: ... if matching: decision.reason = ..."
RuleOverride ==
    /\ dreq.pc = "rules"
    /\ \E matched \in BOOLEAN :
          decision' = [decision EXCEPT !.reason = IF matched THEN "rule" ELSE @]
    /\ dreq' = [dreq EXCEPT !.pc = "log"]
    /\ UNCHANGED <<dcalls, elapsed, objs, dicts, cacheVars, assignVars, bucketVars, rulesVars, moreVars>>

\* "except Exception": the policy function of the type on the context the
\* caller passed, with the variant and no params argument
Fallback ==
    /\ dreq.pc = "fallback"
    /\ decision' = Policy([objs |-> objs, dicts |-> dicts, cur |-> CtxRef],
                          CtxRef, dreq.variant, "default", "fallback")
    /\ dreq' = [dreq EXCEPT !.pc = "log"]
    /\ UNCHANGED <<dcalls, elapsed, objs, dicts, cacheVars, assignVars, bucketVars, rulesVars, moreVars>>

\* "session.add(DecisionLog(...)); session.commit(); return decision"
LogDecision ==
    /\ dreq.pc = "log"
    /\ dreq' = [dreq EXCEPT !.pc = "returned"]
    /\ UNCHANGED <<dcalls, elapsed, objs, dicts, decision,
                   cacheVars, assignVars, bucketVars, rulesVars, moreVars>>

\* The store raises on that commit, which is outside the try
LogRaises ==
    /\ dreq.pc = "log"
    /\ dreq' = [dreq EXCEPT !.pc = "raised", !.raised_at = "log"]
    /\ UNCHANGED <<dcalls, elapsed, objs, dicts, decision,
                   cacheVars, assignVars, bucketVars, rulesVars, moreVars>>

NextDecide ==
    \/ BeginDecide
    \/ ResolveVariant
    \/ VariantRaises
    \/ LoadParams
    \/ LoadRaises
    \/ \E n \in CallNames : IssueCall(n)
    \/ \E n \in CallNames : CallReturns(n)
    \/ \E n \in CallNames : CallRaises(n)
    \/ \E n \in CallNames : CallTimesOut(n)
    \/ \E n \in CallNames : LateResult(n)
    \/ DecideTick
    \/ EndGather
    \/ DecideOnEnriched
    \/ RuleOverride
    \/ Fallback
    \/ LogDecision
    \/ LogRaises

InitDecide == InitCache /\ has_runtime /\ InitAssignIdle /\ InitLaterIdle
SpecDecide == InitDecide /\ [][NextDecide]_vars

\* ------------------------------------------------------------------------
\* Rule override: constants and state
\* ------------------------------------------------------------------------
\* "limit=200" of the query _load_rules issues
RULES_LIMIT == 200

\* A type other than the request's
OtherType(ty) == IF ty = "retry" THEN "routing" ELSE "retry"

\* What evaluate_condition(ctx_dict, rule["condition_expression"]) does for
\* the context of the request
CondResults == {"true", "false", "raises"}

\* The approval_rules rows used: an inactive rule and a rule of another
\* type that would both match first, and active rules of the request's type
RuleRows(ty) ==
    {[rule_type |-> ty, priority |-> 10, updated_at |-> 2,
      is_active |-> FALSE, cond |-> "true"],
     [rule_type |-> OtherType(ty), priority |-> 10, updated_at |-> 2,
      is_active |-> TRUE, cond |-> "true"]}
    \cup {[rule_type |-> ty, priority |-> pu[1], updated_at |-> pu[2],
           is_active |-> TRUE, cond |-> c] :
             pu \in {<<10, 1>>, <<10, 2>>, <<20, 2>>}, c \in CondResults}

\* A table of MaxRules rows, in the physical order of the store
SmallTables(ty) == [1..MaxRules -> RuleRows(ty)]

\* A table with more active rules than the limit: RULES_LIMIT active rules
\* of another type and priority 10, and one matching rule of the request's
\* type and priority 20
BigTable(ty) ==
    [i \in 1..(RULES_LIMIT + 1) |->
        IF i <= RULES_LIMIT
        THEN [rule_type |-> OtherType(ty), priority |-> 10, updated_at |-> 2,
              is_active |-> TRUE, cond |-> "true"]
        ELSE [rule_type |-> ty, priority |-> 20, updated_at |-> 2,
              is_active |-> TRUE, cond |-> "true"]]

\* The dict built for row i of table t (its id is its position)
RuleOf(t, i) ==
    [id |-> i, rule_type |-> t[i].rule_type, priority |-> t[i].priority,
     updated_at |-> t[i].updated_at, is_active |-> t[i].is_active,
     cond |-> t[i].cond]

\* "ORDER BY priority ASC, updated_at DESC": a comes strictly before b
Before(a, b) ==
    \/ a.priority < b.priority
    \/ a.priority = b.priority /\ a.updated_at > b.updated_at

\* "WHERE is_active = true ORDER BY priority ASC, updated_at DESC": the
\* active rows grouped by (priority, updated_at), the groups in the order of
\* Before; rows that tie come in the order the store yields them
ActiveOrdered(t) ==
    LET active == SelectSeq([i \in DOMAIN t |-> RuleOf(t, i)],
                            LAMBDA r : r.is_active)
        KeyOf(r) == [priority |-> r.priority, updated_at |-> r.updated_at]
        keys == {KeyOf(active[i]) : i \in DOMAIN active}
        key_at == [k \in 1..Cardinality(keys) |->
                      CHOOSE x \in keys :
                          Cardinality({y \in keys : Before(y, x)}) = k - 1]
        Upto[k \in 0..Cardinality(keys)] ==
            IF k = 0 THEN <<>>
            ELSE Upto[k - 1] \o SelectSeq(active, LAMBDA r : KeyOf(r) = key_at[k])
    IN Upto[Cardinality(keys)]

\* "limit = max(1, min(limit, 500))"; "LIMIT :limit"
ClampLimit(limit) ==
    LET m == IF limit < 500 THEN limit ELSE 500
    IN IF m > 1 THEN m ELSE 1
Limited(s, limit) ==
    SubSeq(s, 1, IF Len(s) < ClampLimit(limit) THEN Len(s) ELSE ClampLimit(limit))

\* get_approval_rules_from_lakebase(runtime, active_only=True, limit=200)
QueryRules(t) == Limited(ActiveOrdered(t), RULES_LIMIT)

\* "[r for r in all_rules if r.get('rule_type') == rule_type]"
OfType(rules, ty) == SelectSeq(rules, LAMBDA r : r.rule_type = ty)

\* "top_rule = matching[0]"
TopRuleLast(m) == m[Len(m)]
TopRule(m) == m[1]

\* "decision.reason = f'[Rule: {name}] {action_summary}'", and for
\* authentication "decision.metadata = {..., matched_rule_id, matched_rule_name}"
OverrideOutcome(d, rule, ty) ==
    [d EXCEPT !.reason = [by |-> "rule", rule |-> rule.id],
              !.fields = "rule"]
Override(d, rule, ty) ==
    [d EXCEPT !.reason = [by |-> "rule", rule |-> rule.id],
              !.metadata = IF ty = "authentication"
                           THEN @ \cup {"matched_rule_id", "matched_rule_name"}
                           ELSE @]

\* "except Exception as e: logger.debug(...)": the loop goes on with the
\* rule at the index returned (n is the length of the list)
AfterRuleErrorStop(i, n) == n + 1
AfterRuleError(i, n) == i + 1

\* A decide_* method has its decision from the policy function and reaches
\* "if params.rule_engine_enabled:"
BeginRules ==
    /\ rreq.pc = "idle"
    /\ \E ty \in DecisionTypes, en \in BOOLEAN :
          /\ rreq' = [NoRules EXCEPT !.pc = IF en THEN "load" ELSE "return",
                                     !.decision_type = ty, !.enabled = en]
          /\ rdec' = PolicyDecision(ty)
    /\ UNCHANGED <<rtable, rcache, matching, cacheVars, assignVars,
                   bucketVars, decideVars, moreVars>>

\* _evaluate_rules: "rules = self._load_rules(rule_type=rule_type)", the
\* cache being refreshed from the rows the store holds
LoadRules ==
    /\ rreq.pc = "load"
    /\ \E t \in SmallTables(rreq.decision_type) \cup {BigTable(rreq.decision_type)} :
          LET q == QueryRules(t)
          IN /\ rtable' = t
             /\ rcache' = q
             /\ rreq' = [rreq EXCEPT !.pc = "eval", !.load_ok = TRUE, !.idx = 1,
                                     !.rules = OfType(q, rreq.decision_type)]
    /\ matching' = <<>>
    /\ UNCHANGED <<rdec, cacheVars, assignVars, bucketVars, decideVars, moreVars>>

\* The query fails: get_approval_rules_from_lakebase returns None (or
\* raises) and all_rules stays []
LoadRulesFails ==
    /\ rreq.pc = "load"
    /\ rcache' = <<>>
    /\ rreq' = [rreq EXCEPT !.pc = "eval", !.load_ok = FALSE, !.idx = 1,
                            !.rules = <<>>]
    /\ matching' = <<>>
    /\ UNCHANGED <<rtable, rdec, cacheVars, assignVars, bucketVars, decideVars, moreVars>>

\* One turn of "for rule in rules": evaluate_condition returns or raises
EvalRule ==
    /\ rreq.pc = "eval"
    /\ rreq.idx <= Len(rreq.rules)
    /\ LET rule == rreq.rules[rreq.idx]
       IN /\ matching' = IF rule.cond = "true" THEN Append(matching, rule)
                         ELSE matching
          /\ rreq' = [rreq EXCEPT
                 !.evaluated = @ \cup {rule.id},
                 !.idx = IF rule.cond = "raises"
                         THEN AfterRuleError(rreq.idx, Len(rreq.rules))
                         ELSE rreq.idx + 1]
    /\ UNCHANGED <<rtable, rcache, rdec, cacheVars, assignVars,
                   bucketVars, decideVars, moreVars>>

\* "return matching"; "if matching: top_rule = matching[0]; ..."; "return
\* decision"
ApplyOverride ==
    /\ rreq.pc = "eval"
    /\ rreq.idx > Len(rreq.rules)
    /\ IF matching # <<>>
       THEN /\ rdec' = Override(rdec, TopRule(matching), rreq.decision_type)
            /\ rreq' = [rreq EXCEPT !.pc = "return",
                                    !.applied = TopRule(matching).id]
       ELSE /\ rreq' = [rreq EXCEPT !.pc = "return"]
            /\ UNCHANGED rdec
    /\ UNCHANGED <<rtable, rcache, matching, cacheVars, assignVars,
                   bucketVars, decideVars, moreVars>>

NextRules ==
    \/ BeginRules
    \/ LoadRules
    \/ LoadRulesFails
    \/ EvalRule
    \/ ApplyOverride

InitRules == InitCache /\ has_runtime /\ InitAssignIdle /\ InitLaterIdle
SpecRules == InitRules /\ [][NextRules]_vars

\* ------------------------------------------------------------------------
\* Route ranking: _route_scores_list as _load_routes applies it on a refresh
\* ------------------------------------------------------------------------
\* RoutePerformance rows: approval rate in percent, latency in ms, cost score
\* in tenths
RouteRowSet ==
    {[route_name |-> "A", approval_rate_pct |-> 92, avg_latency_ms |-> 400, cost_score |-> 3],
     [route_name |-> "B", approval_rate_pct |-> 92, avg_latency_ms |-> 350, cost_score |-> 3],
     [route_name |-> "C", approval_rate_pct |-> 80, avg_latency_ms |-> 200, cost_score |-> 1],
     [route_name |-> "D", approval_rate_pct |-> 92, avg_latency_ms |-> 350, cost_score |-> 1],
     [route_name |-> "E", approval_rate_pct |-> 80, avg_latency_ms |-> 200, cost_score |-> 1],
     [route_name |-> "F", approval_rate_pct |-> 95, avg_latency_ms |-> 900, cost_score |-> 9]}

\* The row lists a read can return: up to MaxRoutes rows of distinct routes
RouteRowLists ==
    {rows \in UNION {[1..n -> RouteRowSet] : n \in 1..MaxRoutes} :
        \A i, j \in DOMAIN rows : i # j => rows[i].route_name # rows[j].route_name}

\* "key=lambda r: (-r.approval_rate_pct, r.avg_latency_ms, r.cost_score)":
\* the key of a is smaller than the key of b
KeyLessSlowFirst(a, b) ==
    \/ a.approval_rate_pct > b.approval_rate_pct
    \/ /\ a.approval_rate_pct = b.approval_rate_pct
       /\ \/ a.avg_latency_ms > b.avg_latency_ms
          \/ a.avg_latency_ms = b.avg_latency_ms /\ a.cost_score < b.cost_score
KeyLess(a, b) ==
    \/ a.approval_rate_pct > b.approval_rate_pct
    \/ /\ a.approval_rate_pct = b.approval_rate_pct
       /\ \/ a.avg_latency_ms < b.avg_latency_ms
          \/ a.avg_latency_ms = b.avg_latency_ms /\ a.cost_score < b.cost_score

\* list.sort(key=...): ascending by key, stable; row i goes to position
\* 1 + the number of rows sorted before it
route_scores_list(rows) ==
    LET Precedes(j, i) ==
            KeyLess(rows[j], rows[i]) \/ (~KeyLess(rows[i], rows[j]) /\ j < i)
        pos == [i \in DOMAIN rows |->
                   1 + Cardinality({j \in DOMAIN rows : Precedes(j, i)})]
    IN [k \in DOMAIN rows |-> rows[CHOOSE i \in DOMAIN rows : pos[i] = k]]

\* _load_routes on an expired entry: the rows are read and
\* "_route_scores_list(rows) if rows else []" is stored
RefreshRoutes ==
    \E rows \in RouteRowLists \cup {<<>>} :
        /\ route_rows' = rows
        /\ routes' = IF rows # <<>> THEN route_scores_list(rows) ELSE <<>>
        /\ UNCHANGED <<cacheVars, assignVars, bucketVars, decideVars, rulesVars, resultsVars, outcomeVars, logVars, syncVars, proposalVars, lastVars>>

NextRoutes ==
    \/ RefreshRoutes

InitRoutes == InitCache /\ has_runtime /\ InitAssignIdle /\ InitLaterIdle
SpecRoutes == InitRoutes /\ [][NextRoutes]_vars

\* ------------------------------------------------------------------------
\* Experiment analysis: get_experiment_results
\* ------------------------------------------------------------------------
\* Exact arithmetic on naturals beyond 2^31: BigW limbs in base BigBase, least
\* significant first.  The z statistic of 200 outcomes per variant needs
\* products of about 10^16.
BigW == 8
BigBase == 10000
BigOf(n) ==
    [i \in 1..BigW |->
        IF i = 1 THEN n % BigBase
        ELSE IF i = 2 THEN (n \div BigBase) % BigBase
        ELSE IF i = 3 THEN n \div (BigBase * BigBase)
        ELSE 0]

RECURSIVE BigCarry(_, _, _)
BigCarry(b, k, i) ==
    IF i = 0 THEN 0 ELSE (b[i] * k + BigCarry(b, k, i - 1)) \div BigBase

BigMul(b, k) == [i \in 1..BigW |-> (b[i] * k + BigCarry(b, k, i - 1)) % BigBase]

BigLess(a, b) ==
    \E i \in 1..BigW : a[i] < b[i] /\ \A j \in (i + 1)..BigW : a[j] = b[j]

\* A float the handler holds: None, or the quotient num/den it computed; a
\* quotient with den = 0 is the ZeroDivisionError Python raises for it
NoneVal == [kind |-> "none", num |-> 0, den |-> 1]
Div(x, y) ==
    IF y = 0
    THEN [kind |-> "zerodiv", num |-> x, den |-> 0]
    ELSE [kind |-> "value", num |-> x, den |-> y]

Abs(x) == IF x < 0 THEN 0 - x ELSE x

\* x / y rounded to the nearest integer (y > 0), as "{:.1f}" rounds
RoundDiv(x, y) ==
    IF x >= 0 THEN (2 * x + y) \div (2 * y) ELSE 0 - ((2 * (0 - x) + y) \div (2 * y))

\* "(approved / total_outcomes) if total_outcomes > 0 else None"
RateGuard(total_outcomes) == total_outcomes > 0
approval_rate(v) ==
    IF RateGuard(v.outcomes) THEN Div(v.approved, v.outcomes) ELSE NoneVal

\* "sum(...) / len([o for o in outcomes if o.latency_ms]) if any(o.latency_ms
\* for o in outcomes) else None": v.timed outcomes have a latency
avg_latency_ms(v) ==
    IF v.timed > 0 THEN Div(v.timed, v.timed) ELSE NoneVal

\* variant_stats.get(name): absent when the variant has no subjects
HasStats(v) == v.subjects > 0

\* the guard of the analysis block: both variants have outcomes and rates
BothHaveOutcomes(c, t) ==
    /\ HasStats(c) /\ HasStats(t)
    /\ c.outcomes > 0 /\ t.outcomes > 0
    /\ approval_rate(c).kind # "none" /\ approval_rate(t).kind # "none"

\* t_rate - c_rate over the common denominator c_n * t_n
RateDiff(c, t) == t.approved * c.outcomes - c.approved * t.outcomes

\* "if c_rate > 0: lift_pct = ((t_rate - c_rate) / c_rate) * 100": the
\* quotient by c_rate = approved_c / c_n is RateDiff * 100 / (approved_c * t_n)
LiftDefinedAlways(c) == TRUE
LiftDefined(c) == c.approved > 0
lift_pct_of_treatment(c, t) == Div(RateDiff(c, t) * 100, t.approved * c.outcomes)
lift_pct_of(c, t) == Div(RateDiff(c, t) * 100, c.approved * t.outcomes)
lift_pct(c, t) == IF LiftDefined(c) THEN lift_pct_of(c, t) ELSE NoneVal

\* "pooled = (approved_c + approved_t) / (c_n + t_n)"
pooled(c, t) == Div(c.approved + t.approved, c.outcomes + t.outcomes)
PooledInside(c, t) ==
    /\ pooled(c, t).kind = "value"
    /\ pooled(c, t).num > 0
    /\ pooled(c, t).num < pooled(c, t).den

\* se^2 = pooled * (1 - pooled) * (1/c_n + 1/t_n)
\*      = A * (N - A) / (N * c_n * t_n)  with A = pooled.num, N = pooled.den
SeSquaredNum(c, t) == pooled(c, t).num * (pooled(c, t).den - pooled(c, t).num)
SePositive(c, t) == SeSquaredNum(c, t) > 0

\* p_value = 2 * (1 - _normal_cdf(abs(z))) is below 0.05 exactly when
\* z^2 > 1.959964^2 = 3.841459, with
\* z^2 = RateDiff^2 * N / (c_n * t_n * A * (N - A))
Z2_CRIT_MICRO == 3841459
PBelow05(c, t) ==
    LET d == Abs(RateDiff(c, t))
        A == pooled(c, t).num
        N == pooled(c, t).den
    IN BigLess(
        BigMul(BigMul(BigMul(BigMul(BigOf(Z2_CRIT_MICRO), c.outcomes), t.outcomes), A), N - A),
        BigMul(BigMul(BigMul(BigMul(BigOf(d), d), N), 1000), 1000))

\* p_value: None, or the float the z-test computed
PValueComputed(c, t) == PooledInside(c, t) /\ SePositive(c, t)

\* every quotient the handler evaluates, in the order it evaluates them
Quotients(c, t) ==
    (IF HasStats(c) THEN <<approval_rate(c), avg_latency_ms(c)>> ELSE <<>>)
    \o (IF HasStats(t) THEN <<approval_rate(t), avg_latency_ms(t)>> ELSE <<>>)
    \o (IF BothHaveOutcomes(c, t)
        THEN <<lift_pct(c, t), pooled(c, t)>>
             \o (IF PooledInside(c, t)
                 THEN <<Div(1, c.outcomes), Div(1, t.outcomes)>>
                      \o (IF SePositive(c, t) THEN <<Div(RateDiff(c, t), SeSquaredNum(c, t))>>
                          ELSE <<>>)
                 ELSE <<>>)
        ELSE <<>>)

\* f"...(p={p_value:.4f if p_value else 'N/A'})...": everything after the
\* colon is the format specification, which float.__format__ rejects with
\* ValueError and NoneType.__format__ with TypeError
FormatNotYetSignificant(p_some) == IF p_some THEN "ValueError" ELSE "TypeError"

\* the handler: what it raises, or the ExperimentResultsOut it returns
get_experiment_results(rows) ==
    LET c == rows.control
        t == rows.treatment
        analysed == BothHaveOutcomes(c, t)
        p_some == analysed /\ PValueComputed(c, t)
        is_significant == p_some /\ PBelow05(c, t)
        lift == IF analysed THEN lift_pct(c, t) ELSE NoneVal
        lift_sign == IF lift.kind # "value" THEN 0
                     ELSE IF lift.num > 0 THEN 1 ELSE IF lift.num < 0 THEN 0 - 1 ELSE 0
        q == Quotients(c, t)
        returned(rec) ==
            [called |-> TRUE, raised |-> "none", lift_pct |-> lift,
             lift_tenths |-> IF lift.kind = "value"
                             THEN RoundDiv(lift.num * 10, lift.den) ELSE 0,
             p_value |-> p_some, is_significant |-> is_significant,
             recommendation |-> rec]
        raises(e) ==
            [called |-> TRUE, raised |-> e, lift_pct |-> lift, lift_tenths |-> 0,
             p_value |-> p_some, is_significant |-> is_significant,
             recommendation |-> "none"]
    IN IF ~rows.exists THEN
           [called |-> TRUE, raised |-> "HTTP404", lift_pct |-> NoneVal, lift_tenths |-> 0,
            p_value |-> FALSE, is_significant |-> FALSE, recommendation |-> "none"]
       ELSE IF c.subjects = 0 /\ t.subjects = 0 THEN
           [called |-> TRUE, raised |-> "none", lift_pct |-> NoneVal, lift_tenths |-> 0,
            p_value |-> FALSE, is_significant |-> FALSE, recommendation |-> "not_enough_data"]
       ELSE IF \E i \in DOMAIN q : q[i].kind = "zerodiv" THEN raises("ZeroDivisionError")
       ELSE IF ~analysed THEN returned("not_enough_data")
       ELSE IF is_significant THEN
           IF lift_sign > 0 THEN returned("positive_lift")
           ELSE IF lift_sign < 0 THEN returned("negative_lift")
           ELSE returned("no_meaningful_difference")
       ELSE raises(FormatNotYetSignificant(p_some))

\* The rows of one variant: subjects assigned, DecisionLog rows tagged with
\* the variant, their outcomes (none without a decision), the approved ones
\* and the ones with a latency
SampleSizes == 0..MaxOutcomes \cup {10, 200}
ApprovedCounts == 0..MaxOutcomes \cup {8, 10, 100, 130, 200}
VariantRows ==
    {v \in [subjects : 0..1, decisions : 0..1, outcomes : SampleSizes,
            approved : ApprovedCounts, timed : SampleSizes] :
        /\ v.decisions = 0 => v.outcomes = 0
        /\ v.approved <= v.outcomes
        /\ v.timed \in {0, v.outcomes}}

\* one call of the handler on the rows the store holds
GetResults ==
    /\ ~exp_results.called
    /\ exp_results' = get_experiment_results(exp_rows)
    /\ UNCHANGED <<exp_rows, cacheVars, assignVars, bucketVars, decideVars, rulesVars,
                   routeVars, outcomeVars, logVars, syncVars, proposalVars, lastVars>>

NextResults ==
    \/ GetResults

\* the store holds any rows when the handler is called
InitResults ==
    /\ InitCache /\ has_runtime /\ InitAssignIdle
    /\ InitBucketIdle /\ InitDecideIdle /\ InitRulesIdle /\ InitRoutesIdle
    /\ InitOutcomeIdle /\ InitLogIdle /\ InitSyncIdle /\ InitProposalIdle /\ InitLastIdle
    /\ \E e \in BOOLEAN, c \in VariantRows, t \in VariantRows :
           exp_rows = [exists |-> e, control |-> c, treatment |-> t]
    /\ exp_results = [called |-> FALSE]
SpecResults == InitResults /\ [][NextResults]_vars

\* ------------------------------------------------------------------------
\* Outcome recording: DecisionEngine.record_outcome
\* ------------------------------------------------------------------------
\* audit ids a caller may send; "a9" is the id of no decision
OutcomeAuditIds == {"a1", "a2", "a9"}
LoggedAuditIds == {"a1", "a2"}
OutcomeLabels == {"approved", "declined"}
\* where the store fails during the call: nowhere, in session.add, in
\* session.commit
StoreFaults == {"none", "add", "commit"}

LogRowOf(a) == [audit_id |-> a, response |-> "decision"]

\* "except Exception as e: logger.warning(...); return False"
OutcomeOnErrorRaise(rows) == [ret |-> "raised", rows |-> rows]
OutcomeOnError(rows) == [ret |-> "false", rows |-> rows]

\* record_outcome on the outcome rows of the store: the value returned and
\* the rows afterwards.  A commit that fails leaves no row.
record_outcome(rows, has_session, fault, audit_id, outcome) ==
    IF ~has_session THEN [ret |-> "false", rows |-> rows]
    ELSE IF fault # "none" THEN OutcomeOnError(rows)
    ELSE [ret |-> "true",
          rows |-> Append(rows, [audit_id |-> audit_id, outcome |-> outcome])]

RecordOutcome ==
    /\ Len(outcomes) < MaxOutcomeRows
    /\ \E a \in OutcomeAuditIds, o \in OutcomeLabels, has_session \in BOOLEAN,
          fault \in StoreFaults :
           LET r == record_outcome(outcomes, has_session, fault, a, o)
           IN /\ outcomes' = r.rows
              /\ out_obs' = [called |-> TRUE, audit_id |-> a, outcome |-> o,
                             has_session |-> has_session, fault |-> fault,
                             ret |-> r.ret, rows_before |-> outcomes,
                             log_before |-> decision_log]
    /\ UNCHANGED <<decision_log, cacheVars, assignVars, bucketVars, decideVars, rulesVars,
                   routeVars, resultsVars, logVars, syncVars, proposalVars, lastVars>>

NextOutcome ==
    \/ RecordOutcome

\* the store holds the DecisionLog rows of any of the logged decisions
InitOutcome ==
    /\ InitCache /\ has_runtime /\ InitAssignIdle
    /\ InitBucketIdle /\ InitDecideIdle /\ InitRulesIdle /\ InitRoutesIdle
    /\ InitResultsIdle /\ InitLogIdle /\ InitSyncIdle /\ InitProposalIdle /\ InitLastIdle
    /\ decision_log \in {<<>>, <<LogRowOf("a1")>>, <<LogRowOf("a2")>>,
                         <<LogRowOf("a1"), LogRowOf("a2")>>}
    /\ outcomes = <<>>
    /\ out_obs = NoOutcomeCall
SpecOutcome == InitOutcome /\ [][NextOutcome]_vars

\* ------------------------------------------------------------------------
\* A decision request and the stores: _engine_decide with its commits
\* ------------------------------------------------------------------------
\* the requests sent: authentication decisions of two subjects, with or
\* without an experiment
LogTypes == {"authentication"}
LogSubjects == {"s1", "s3"}

\* "entity_id=f"auth_{decision.audit_id}"" and its retry and routing forms
EntityPrefix(ty) ==
    CASE ty = "authentication" -> "auth"
      [] ty = "retry" -> "retry"
      [] ty = "routing" -> "routing"

\* the context of the request, and the copy the engine enriched
RawCtx(q) ==
    [experiment_id |-> q.experiment_id, subject_key |-> q.subject_key, metadata |-> {}]
EnrichedCtx(q) ==
    [RawCtx(q) EXCEPT !.metadata = IF q.has_ml THEN {"ml_risk_score"} ELSE {}]

\* serialize_context: the fields of a context as a plain mapping
SerializeContext(c) ==
    [kind |-> "dict", experiment_id |-> c.experiment_id,
     subject_key |-> c.subject_key, metadata |-> c.metadata]

\* "request=serialize_context(ctx)": ctx is the argument of _engine_decide
LogRequestEnriched(raw, enriched) == SerializeContext(enriched)
LogRequest(raw, enriched) == SerializeContext(raw)

\* _with_ab: model_dump() of the decision plus experiment_id (when not None)
\* and variant
WithAb(d, experiment_id, variant) ==
    [audit_id |-> d.audit_id, source |-> d.source, reason |-> d.reason,
     experiment_id |-> experiment_id, variant |-> variant]

\* the Decision a policy function returns: a new audit id each time
PolicyOut(source, audit_id) ==
    [audit_id |-> audit_id, source |-> source, reason |-> "policy"]

\* _write_online_features: "except Exception as e: logger.debug(...)"
OnWriteErrorRaise == "raises"
OnWriteError == "swallowed"

\* one commit of the request to a store, and whether the request's decision
\* had its audit id by then
Effect(store) ==
    [store |-> store, audit_known |-> lreq.decision.audit_id # 0]

\* the next request arrives once the one before has returned or raised
LogBegin ==
    /\ lreq.pc \in {"idle", "returned", "raised"}
    /\ nlog < MaxLogRequests
    /\ nlog' = nlog + 1
    /\ effects' = <<>>
    /\ \E ty \in LogTypes, e \in ExpIds \cup {None}, s \in LogSubjects,
          ml \in BOOLEAN, rule \in BOOLEAN :
           lreq' = [NoLogReq EXCEPT !.pc = "variant", !.decision_type = ty,
                                        !.experiment_id = e, !.subject_key = s,
                                        !.has_ml = ml, !.rule = rule]
    /\ UNCHANGED <<next_audit, exp_assigned, feature_rows, outcomeVars,
                   cacheVars, assignVars, bucketVars, decideVars, rulesVars,
                   routeVars, resultsVars, syncVars, proposalVars, lastVars>>

\* _get_or_assign_variant and "variant if variant is not None else "control"":
\* a stored assignment is returned, a new one is added and committed when the
\* experiment is assignable
LogAssign ==
    /\ lreq.pc = "variant"
    /\ LET q == lreq
           stored == {a \in exp_assigned :
                         a[1] = q.experiment_id /\ a[2] = q.subject_key}
       IN IF q.experiment_id = None THEN
              /\ lreq' = [lreq EXCEPT !.pc = "engine", !.variant = "control"]
              /\ UNCHANGED <<exp_assigned, effects>>
          ELSE IF stored # {} THEN
              /\ lreq' = [lreq EXCEPT !.pc = "engine",
                                      !.variant = (CHOOSE a \in stored : TRUE)[3]]
              /\ UNCHANGED <<exp_assigned, effects>>
          ELSE \E assignable \in BOOLEAN :
              IF assignable THEN
                  /\ exp_assigned' = exp_assigned \cup
                         {<<q.experiment_id, q.subject_key, BucketVariant(q.subject_key)>>}
                  /\ effects' = Append(effects, Effect("experiment_assignment"))
                  /\ lreq' = [lreq EXCEPT !.pc = "engine",
                                          !.variant = BucketVariant(q.subject_key)]
              ELSE
                  /\ lreq' = [lreq EXCEPT !.pc = "engine", !.variant = "control"]
                  /\ UNCHANGED <<exp_assigned, effects>>
    /\ UNCHANGED <<nlog, next_audit, feature_rows, outcomeVars,
                   cacheVars, assignVars, bucketVars, decideVars, rulesVars,
                   routeVars, resultsVars, syncVars, proposalVars, lastVars>>

\* decide_*: enrichment, then "decision = _policy_*(enriched, ...)"
LogPolicy ==
    /\ lreq.pc = "engine"
    /\ lreq' = [lreq EXCEPT !.pc = "write",
                            !.decision = PolicyOut("engine", next_audit)]
    /\ next_audit' = next_audit + 1
    /\ UNCHANGED <<nlog, exp_assigned, feature_rows, effects, outcomeVars,
                   cacheVars, assignVars, bucketVars, decideVars, rulesVars,
                   routeVars, resultsVars, syncVars, proposalVars, lastVars>>

\* the engine raises before the policy ran (_load_config) or after the
\* feature write (serialize_context, the rule override): "except Exception"
\* of _engine_decide takes over
LogEngineRaises ==
    /\ lreq.pc \in {"engine", "rules"}
    /\ lreq' = [lreq EXCEPT !.pc = "fallback", !.engine_raised = TRUE]
    /\ UNCHANGED <<nlog, next_audit, exp_assigned, feature_rows, effects, outcomeVars,
                   cacheVars, assignVars, bucketVars, decideVars, rulesVars,
                   routeVars, resultsVars, syncVars, proposalVars, lastVars>>

\* "if ml_features: self._write_online_features(entity_id=..., features=...)"
\* and the write committing its rows
LogWriteFeatures ==
    /\ lreq.pc = "write"
    /\ lreq.has_ml
    /\ feature_rows' = feature_rows \cup
           {<<EntityPrefix(lreq.decision_type), lreq.decision.audit_id>>}
    /\ effects' = Append(effects, Effect("online_features"))
    /\ lreq' = [lreq EXCEPT !.pc = "rules", !.write = "ok"]
    /\ UNCHANGED <<nlog, next_audit, exp_assigned, outcomeVars,
                   cacheVars, assignVars, bucketVars, decideVars, rulesVars,
                   routeVars, resultsVars, syncVars, proposalVars, lastVars>>

\* the write fails in the store (get_session, execute or commit)
LogWriteFails ==
    /\ lreq.pc = "write"
    /\ lreq.has_ml
    /\ lreq' = [lreq EXCEPT !.pc = IF OnWriteError = "swallowed"
                                      THEN "rules" ELSE "fallback",
                            !.write = "failed"]
    /\ UNCHANGED <<nlog, next_audit, exp_assigned, feature_rows, effects, outcomeVars,
                   cacheVars, assignVars, bucketVars, decideVars, rulesVars,
                   routeVars, resultsVars, syncVars, proposalVars, lastVars>>

\* no ml_* key in the enriched metadata: nothing is written
LogWriteSkipped ==
    /\ lreq.pc = "write"
    /\ ~lreq.has_ml
    /\ lreq' = [lreq EXCEPT !.pc = "rules", !.write = "skipped"]
    /\ UNCHANGED <<nlog, next_audit, exp_assigned, feature_rows, effects, outcomeVars,
                   cacheVars, assignVars, bucketVars, decideVars, rulesVars,
                   routeVars, resultsVars, syncVars, proposalVars, lastVars>>

\* the rule override, in place on the decision, and "return decision"
LogRules ==
    /\ lreq.pc = "rules"
    /\ lreq' = [lreq EXCEPT !.pc = "log",
                            !.decision.reason =
                                IF lreq.rule THEN "rule" ELSE @]
    /\ UNCHANGED <<nlog, next_audit, exp_assigned, feature_rows, effects, outcomeVars,
                   cacheVars, assignVars, bucketVars, decideVars, rulesVars,
                   routeVars, resultsVars, syncVars, proposalVars, lastVars>>

\* "decision = decide_*(ctx, variant=variant)" of the except branch
LogFallback ==
    /\ lreq.pc = "fallback"
    /\ lreq' = [lreq EXCEPT !.pc = "log",
                            !.decision = PolicyOut("fallback", next_audit)]
    /\ next_audit' = next_audit + 1
    /\ UNCHANGED <<nlog, exp_assigned, feature_rows, effects, outcomeVars,
                   cacheVars, assignVars, bucketVars, decideVars, rulesVars,
                   routeVars, resultsVars, syncVars, proposalVars, lastVars>>

\* "session.add(DecisionLog(...)); session.commit(); return decision"
LogCommit ==
    /\ lreq.pc = "log"
    /\ decision_log' = Append(decision_log,
           [audit_id |-> lreq.decision.audit_id,
            decision_type |-> lreq.decision_type,
            request |-> LogRequest(RawCtx(lreq), EnrichedCtx(lreq)),
            response |-> WithAb(lreq.decision, lreq.experiment_id,
                                lreq.variant)])
    /\ effects' = Append(effects, Effect("decision_log"))
    /\ lreq' = [lreq EXCEPT !.pc = "returned"]
    /\ UNCHANGED <<nlog, next_audit, exp_assigned, feature_rows, outcomes, out_obs,
                   cacheVars, assignVars, bucketVars, decideVars, rulesVars,
                   routeVars, resultsVars, syncVars, proposalVars, lastVars>>

\* that commit fails: the request raises and returns no decision
LogCommitRaises ==
    /\ lreq.pc = "log"
    /\ lreq' = [lreq EXCEPT !.pc = "raised"]
    /\ UNCHANGED <<nlog, next_audit, exp_assigned, feature_rows, effects, outcomeVars,
                   cacheVars, assignVars, bucketVars, decideVars, rulesVars,
                   routeVars, resultsVars, syncVars, proposalVars, lastVars>>

NextLog ==
    \/ LogBegin
    \/ LogAssign
    \/ LogPolicy
    \/ LogEngineRaises
    \/ LogWriteFeatures
    \/ LogWriteFails
    \/ LogWriteSkipped
    \/ LogRules
    \/ LogFallback
    \/ LogCommit
    \/ LogCommitRaises

InitLog == InitCache /\ has_runtime /\ InitAssignIdle /\ InitLaterIdle
SpecLog == InitLog /\ [][NextLog]_vars

\* ------------------------------------------------------------------------
\* Rule CRUD with the primary store and the background sync to the secondary
\* ------------------------------------------------------------------------
SyncPriorities == {10, 20}
\* a field of an update payload that was not given
NotGiven == [given |-> FALSE, value |-> 0]
Given(v) == [given |-> TRUE, value |-> v]
UpdatePayloads ==
    {[priority |-> pr, is_active |-> ac] :
        pr \in {NotGiven} \cup {Given(v) : v \in SyncPriorities},
        ac \in {NotGiven} \cup {Given(1), Given(0)}}

\* UPDATE ... SET the fields that are not None WHERE id = :rule_id; a rule
\* that is not there is left absent (0 rows)
UpdateRow(row, payload) ==
    IF ~row.present THEN row
    ELSE [present |-> TRUE,
          priority |-> IF payload.priority.given
                       THEN payload.priority.value ELSE row.priority,
          is_active |-> IF payload.is_active.given
                        THEN payload.is_active.value = 1 ELSE row.is_active]

\* the payload of the sync task of an update: every field of the row read
\* back from the primary store
FullRowPayload(row) ==
    [priority |-> Given(row.priority),
     is_active |-> Given(IF row.is_active THEN 1 ELSE 0)]

\* what a sync task does to the secondary store: create inserts the row,
\* update sets the fields of the row if it is there, delete removes it
ApplyTask(store, t) ==
    CASE t.action = "create" -> [store EXCEPT ![t.rule_id] = t.row]
      [] t.action = "update" ->
            [store EXCEPT ![t.rule_id] = UpdateRow(@, FullRowPayload(t.row))]
      [] t.action = "delete" -> [store EXCEPT ![t.rule_id] = NoRow]

Task(action, rule_id, row) ==
    [n |-> nops + 1, action |-> action, rule_id |-> rule_id, row |-> row]

\* create_approval_rule: the insert into the primary store succeeded and the
\* create task is scheduled; rule_id is a new uuid
CreateRule ==
    /\ nops < MaxSyncOps
    /\ \E i \in SyncIds, pr \in SyncPriorities, ac \in BOOLEAN :
           /\ ~primary[i].present
           /\ \A t \in sync_tasks : t.rule_id # i
           /\ ~secondary[i].present
           /\ LET row == [present |-> TRUE, priority |-> pr, is_active |-> ac]
              IN /\ primary' = [primary EXCEPT ![i] = row]
                 /\ sync_tasks' = sync_tasks \cup {Task("create", i, row)}
    /\ nops' = nops + 1
    /\ UNCHANGED <<secondary, sync_failed, cacheVars, assignVars, bucketVars, decideVars,
                   rulesVars, routeVars, resultsVars, outcomeVars, logVars, proposalVars, lastVars>>

\* update_approval_rule: the update changed a row of the primary store, the
\* row is read back and the update task is scheduled with its fields
UpdateRule ==
    /\ nops < MaxSyncOps
    /\ \E i \in SyncIds, payload \in UpdatePayloads :
           /\ primary[i].present
           /\ primary' = [primary EXCEPT ![i] = UpdateRow(@, payload)]
           /\ sync_tasks' = sync_tasks \cup {Task("update", i, UpdateRow(primary[i], payload))}
    /\ nops' = nops + 1
    /\ UNCHANGED <<secondary, sync_failed, cacheVars, assignVars, bucketVars, decideVars,
                   rulesVars, routeVars, resultsVars, outcomeVars, logVars, proposalVars, lastVars>>

\* delete_approval_rule: the delete ran on the primary store (whether or not
\* the rule was there) and the delete task is scheduled
DeleteRule ==
    /\ nops < MaxSyncOps
    /\ \E i \in SyncIds :
           /\ primary' = [primary EXCEPT ![i] = NoRow]
           /\ sync_tasks' = sync_tasks \cup {Task("delete", i, NoRow)}
    /\ nops' = nops + 1
    /\ UNCHANGED <<secondary, sync_failed, cacheVars, assignVars, bucketVars, decideVars,
                   rulesVars, routeVars, resultsVars, outcomeVars, logVars, proposalVars, lastVars>>

\* _sync_rule_to_lakehouse runs: any scheduled task, whatever request
\* scheduled it first
RunSyncTask ==
    /\ \E t \in sync_tasks :
           /\ secondary' = ApplyTask(secondary, t)
           /\ sync_tasks' = sync_tasks \ {t}
    /\ UNCHANGED <<primary, nops, sync_failed, cacheVars, assignVars, bucketVars,
                   decideVars, rulesVars, routeVars, resultsVars, outcomeVars, logVars, proposalVars, lastVars>>

\* the service is unavailable ("skipping Lakehouse sync") or its call raises
\* ("except Exception: logger.warning"): the task ends without effect
SyncTaskFails ==
    /\ \E t \in sync_tasks : sync_tasks' = sync_tasks \ {t}
    /\ sync_failed' = TRUE
    /\ UNCHANGED <<primary, secondary, nops, cacheVars, assignVars, bucketVars,
                   decideVars, rulesVars, routeVars, resultsVars, outcomeVars, logVars, proposalVars, lastVars>>

NextSync ==
    \/ CreateRule
    \/ UpdateRule
    \/ DeleteRule
    \/ RunSyncTask
    \/ SyncTaskFails

InitSync == InitCache /\ has_runtime /\ InitAssignIdle /\ InitLaterIdle
SpecSync == InitSync /\ [][NextSync]_vars

\* ------------------------------------------------------------------------
\* Config proposals: create_proposal and review_proposal
\* ------------------------------------------------------------------------
ChangeTypes == {"decision_config", "decline_code", "route_performance", "other"}
ReviewActions == {"approve", "reject", "other"}
\* where the store fails during a review: nowhere, while the change is
\* applied, or in the final commit
ReviewFaults == {"none", "apply", "commit"}

\* _apply_config_change raises: the store fails, or int() / float() rejects
\* the proposed value (float() is reached only for an existing route row)
ApplyRaises(prop, fault, existing) ==
    \/ fault = "apply"
    \/ prop.change_type = "decline_code" /\ ~prop.parses
    \/ prop.change_type = "route_performance" /\ existing /\ ~prop.parses

\* _apply_config_change: what the session stages for the targeted row, given
\* the row session.get returned: an update, an insert, or nothing
StagedWrite(prop, row) ==
    CASE prop.change_type \in {"decision_config", "decline_code"} ->
             IF row # "absent" THEN "update" ELSE "insert"
      [] prop.change_type = "route_performance" ->
             IF row # "absent" THEN "update" ELSE "none"
      [] OTHER -> "none"

\* "if proposal.status != "pending": raise HTTPException(status_code=400, ...)"
Reviewable(prop) == prop.status = "pending"

\* review_proposal: the status code of the response, the row afterwards and
\* whether the change reached the config tables
review_proposal(prop, action, fault, existing) ==
    IF prop.status = "absent" THEN [code |-> 404, prop |-> prop, applied |-> FALSE]
    ELSE IF ~Reviewable(prop) THEN [code |-> 400, prop |-> prop, applied |-> FALSE]
    ELSE IF action \notin {"approve", "reject"}
        THEN [code |-> 422, prop |-> prop, applied |-> FALSE]
    ELSE IF fault = "commit" THEN [code |-> 500, prop |-> prop, applied |-> FALSE]
    ELSE IF action = "reject"
        THEN [code |-> 200, prop |-> [prop EXCEPT !.status = "rejected"], applied |-> FALSE]
    ELSE IF ApplyRaises(prop, fault, existing)
        THEN [code |-> 200, prop |-> [prop EXCEPT !.status = "approved"], applied |-> FALSE]
    ELSE [code |-> 200, prop |-> [prop EXCEPT !.status = "applied"],
          applied |-> StagedWrite(prop, IF existing THEN "old" ELSE "absent") # "none"]

CreateProposal ==
    /\ \E i \in PropIds, ct \in ChangeTypes, ok \in BOOLEAN :
           /\ proposals[i].status = "absent"
           /\ proposals' = [proposals EXCEPT ![i] =
                               [status |-> "pending", change_type |-> ct, parses |-> ok]]
    /\ UNCHANGED <<applied_cfg, prop_resp, cacheVars, assignVars, bucketVars, decideVars,
                   rulesVars, routeVars, resultsVars, outcomeVars, logVars, syncVars, lastVars>>

ReviewCall(i, action, fault, existing) ==
    LET r == review_proposal(proposals[i], action, fault, existing)
    IN /\ proposals' = [proposals EXCEPT ![i] = r.prop]
       /\ applied_cfg' = IF r.applied THEN applied_cfg \cup {i} ELSE applied_cfg
       /\ prop_resp' = [proposal |-> i, code |-> r.code]
       /\ UNCHANGED <<cacheVars, assignVars, bucketVars, decideVars,
                      rulesVars, routeVars, resultsVars, outcomeVars, logVars, syncVars, lastVars>>

ReviewProposal ==
    \E i \in PropIds, action \in ReviewActions, fault \in ReviewFaults,
       existing \in BOOLEAN : ReviewCall(i, action, fault, existing)

NextProposal ==
    \/ CreateProposal
    \/ ReviewProposal

InitProposal == InitCache /\ has_runtime /\ InitAssignIdle /\ InitLaterIdle
SpecProposal == InitProposal /\ [][NextProposal]_vars

\* The operator retries: an approval of a proposal, sent while the store works,
\* is eventually handled if it can change anything
SpecProposalLive ==
    /\ InitProposal
    /\ [][NextProposal]_vars
    /\ \A i \in PropIds : WF_vars(ReviewCall(i, "approve", "none", TRUE))

\* ------------------------------------------------------------------------
\* review_proposal, one call per operator, each in a session of its own
\* (dependencies.get_session); the store shows a session what is committed
\* ------------------------------------------------------------------------

\* the row _apply_config_change looks up: the table is named by change_type
TargetRow(prop) ==
    IF prop.change_type \in CfgTables THEN cfg[prop.change_type] ELSE "absent"

\* the status code with which review_proposal ends before it changes anything
EarlyCode(prop, action) ==
    IF prop.status = "absent" THEN 404
    ELSE IF ~Reviewable(prop) THEN 400
    ELSE IF action \notin {"approve", "reject"} THEN 422
    ELSE 0

\* lines 74-86: the row is read and tested; the new status is set on the
\* session's object
ReviewBegin(o, i, action) ==
    /\ rev[o].pc = "idle"
    /\ nrev < MaxReviews
    /\ nrev' = nrev + 1
    /\ LET code == EarlyCode(proposals[i], action)
       IN IF code # 0
          THEN /\ prop_resp' = [proposal |-> i, code |-> code]
               /\ rev' = rev
          ELSE /\ prop_resp' = prop_resp
               /\ rev' = [rev EXCEPT ![o] =
                      [pc |-> IF action = "approve" THEN "apply" ELSE "commit",
                       id |-> i, action |-> action,
                       status |-> IF action = "approve" THEN "approved" ELSE "rejected",
                       write |-> "none"]]
    /\ UNCHANGED <<proposals, applied_cfg, cfg, rev_ok, rev_writes, applied_snap,
                   cacheVars, assignVars, bucketVars, decideVars, rulesVars, routeVars,
                   resultsVars, outcomeVars, logVars, syncVars, staleVars, paramVars, snapVars>>

\* lines 89-96: the change is applied on the session; an exception leaves
\* the status "approved"
ReviewApply(o, fault) ==
    /\ rev[o].pc = "apply"
    /\ LET prop == proposals[rev[o].id]
           row == TargetRow(prop)
       IN rev' = [rev EXCEPT ![o] =
              IF ApplyRaises(prop, fault, row # "absent")
              THEN [@ EXCEPT !.pc = "commit"]
              ELSE [@ EXCEPT !.pc = "commit", !.status = "applied",
                             !.write = StagedWrite(prop, row)]]
    /\ UNCHANGED <<proposals, applied_cfg, prop_resp, cfg, nrev, rev_ok, rev_writes,
                   applied_snap, cacheVars, assignVars, bucketVars, decideVars, rulesVars,
                   routeVars, resultsVars, outcomeVars, logVars, syncVars, staleVars, paramVars, snapVars>>

\* session.commit() fails: the store is down, or the staged insert meets a
\* row another session has committed since (primary key)
CommitRaises(o, fault) ==
    \/ fault
    \/ rev[o].write = "insert" /\ TargetRow(proposals[rev[o].id]) # "absent"

\* lines 98-101: the session commits the status and the staged row together
ReviewCommit(o, fault) ==
    /\ rev[o].pc = "commit"
    /\ LET i == rev[o].id
           ct == proposals[i].change_type
           wrote == rev[o].write # "none"
           row == IF wrote THEN i ELSE TargetRow(proposals[i])
       IN IF CommitRaises(o, fault)
          THEN /\ prop_resp' = [proposal |-> i, code |-> 500]
               /\ UNCHANGED <<proposals, applied_cfg, cfg, rev_ok, rev_writes, applied_snap>>
          ELSE /\ prop_resp' = [proposal |-> i, code |-> 200]
               /\ proposals' = [proposals EXCEPT ![i].status = rev[o].status]
               /\ cfg' = IF wrote THEN [cfg EXCEPT ![ct] = i] ELSE cfg
               /\ applied_cfg' = IF wrote THEN applied_cfg \cup {i} ELSE applied_cfg
               /\ rev_ok' = [rev_ok EXCEPT ![i] = @ + 1]
               /\ rev_writes' = [rev_writes EXCEPT ![i] = IF wrote THEN @ + 1 ELSE @]
               /\ applied_snap' = IF rev[o].status = "applied"
                                  THEN [applied_snap EXCEPT ![i] = row]
                                  ELSE applied_snap
    /\ rev' = [rev EXCEPT ![o] = NoReview]
    /\ UNCHANGED <<nrev, cacheVars, assignVars, bucketVars, decideVars, rulesVars,
                   routeVars, resultsVars, outcomeVars, logVars, syncVars, staleVars, paramVars, snapVars>>

NextReview ==
    \/ CreateProposal
    \/ \E o \in Operators, i \in PropIds, action \in ReviewActions : ReviewBegin(o, i, action)
    \/ \E o \in Operators, fault \in {"none", "apply"} : ReviewApply(o, fault)
    \/ \E o \in Operators, fault \in BOOLEAN : ReviewCommit(o, fault)

\* the config rows the proposals target exist, or none of them does, when
\* the service starts
InitReview ==
    /\ InitCache /\ has_runtime /\ InitAssignIdle
    /\ InitBucketIdle /\ InitDecideIdle /\ InitRulesIdle
    /\ InitRoutesIdle /\ InitResultsIdle /\ InitOutcomeIdle /\ InitLogIdle
    /\ InitSyncIdle /\ InitProposalIdle
    /\ rev = [o \in Operators |-> NoReview]
    /\ \E row \in {"absent", "old"} : cfg = [t \in CfgTables |-> row]
    /\ nrev = 0
    /\ rev_ok = [i \in PropIds |-> 0]
    /\ rev_writes = [i \in PropIds |-> 0]
    /\ applied_snap = [i \in PropIds |-> "never"]
    /\ InitStaleIdle /\ InitParamsIdle /\ InitSnapIdle
SpecReview == InitReview /\ [][NextReview]_vars

\* ------------------------------------------------------------------------
\* _evaluate_rules over a store whose rule is deleted or deactivated:
\* _load_rules serves _rules_cache or reads the active rules of the store
\* ------------------------------------------------------------------------
\* the clock advances by half a TTL, or by a second more: two steps can end
\* exactly one TTL later or just after it
StaleTicks == {CACHE_TTL_SECONDS \div 2, CACHE_TTL_SECONDS \div 2 + 1}

TickStale ==
    /\ \E d \in StaleTicks :
          /\ now + d <= MaxTime
          /\ now' = now + d
    /\ UNCHANGED <<cache, lock, pc, frame, obs, loads, calls, has_runtime,
                   assignVars, bucketVars, decideVars, rulesVars, routeVars, resultsVars,
                   outcomeVars, logVars, syncVars, proposalVars, reviewVars, staleVars, paramVars, snapVars>>

\* delete_rule, or update_rule with is_active = False, commits in the store
RuleGoes ==
    /\ srule = "active"
    /\ srule' = "gone"
    /\ gone_at' = now
    /\ UNCHANGED <<eval_start, cacheVars, assignVars, bucketVars, decideVars, rulesVars,
                   routeVars, resultsVars, outcomeVars, logVars, syncVars, proposalVars,
                   reviewVars, paramVars, snapVars>>

\* "rules = self._load_rules(rule_type=rule_type)": the evaluation begins
EvaluateBegin(t) ==
    /\ pc[t] \in {"idle", "done"}
    /\ calls < MaxCalls
    /\ \E ty \in RuleTypes :
          frame' = [frame EXCEPT ![t] =
              [NoFrame EXCEPT !.kind = "rules", !.rule_type = ty]]
    /\ pc' = [pc EXCEPT ![t] = "check"]
    /\ obs' = [obs EXCEPT ![t] = NoObs]
    /\ calls' = calls + 1
    /\ eval_start' = [eval_start EXCEPT ![t] = now]
    /\ UNCHANGED <<now, cache, lock, loads, has_runtime, srule, gone_at,
                   assignVars, bucketVars, decideVars, rulesVars, routeVars, resultsVars,
                   outcomeVars, logVars, syncVars, proposalVars, reviewVars, paramVars, snapVars>>

\* get_approval_rules_from_lakebase(active_only=True): the rows the store
\* holds when the query runs
StoreRows == IF srule = "active" THEN "r1" ELSE "empty"

ReadStoreRules(t) ==
    /\ pc[t] = "read"
    /\ frame' = [frame EXCEPT ![t].rows = StoreRows]
    /\ pc' = [pc EXCEPT ![t] = "write_data"]
    /\ obs' = [obs EXCEPT ![t].loaded = TRUE]
    /\ loads' = [loads EXCEPT ![frame[t].kind] = @ + 1]
    /\ UNCHANGED <<now, cache, lock, calls, has_runtime, assignVars, laterVars>>

\* the rule is in the list _evaluate_rules got, so it matches and overrides
\* the reason of the decision
Overridden(t) ==
    /\ pc[t] = "done"
    /\ frame[t].kind = "rules"
    /\ frame[t].ret.snap.rows = "r1"

\* the callers that evaluate rules: two requests of one process
Evaluators == {1, 2}

NextStale ==
    \/ TickStale
    \/ RuleGoes
    \/ \E t \in Evaluators : EvaluateBegin(t)
    \/ \E t \in Evaluators : FirstCheck(t)
    \/ \E t \in Evaluators : ReadStoreRules(t)
    \/ \E t \in Evaluators : ReadRaises(t)
    \/ \E t \in Evaluators : WriteData(t)
    \/ \E t \in Evaluators : WriteTime(t)

InitStale == InitCache /\ InitAssignIdle /\ InitLaterIdle
SpecStale == InitStale /\ [][NextStale]_vars

\* ------------------------------------------------------------------------
\* _params_from_config: DecisionParams from the decision_config rows
\* (one parameter of each type: float, int, bool)
\* ------------------------------------------------------------------------
\* the text a row can hold in its value column
StoredValues == {"", " ", "0.5", "5", "abc", "inf", "TRUE", "false", "yes"}

\* str.strip() and str.lower() on these texts
Strip(v) == IF v = " " THEN "" ELSE v
Lower(v) ==
    CASE v = "TRUE" -> "true"
      [] v = "True" -> "true"
      [] v = "False" -> "false"
      [] OTHER -> v

\* DecisionParams(): the hard-coded defaults, as Python prints them
Default(k) ==
    CASE k = "risk_threshold_high" -> "0.75"
      [] k = "retry_max_attempts_control" -> "3"
      [] k = "ml_enrichment_enabled" -> "True"

\* "for row in rows: ... if k and v: kv[k] = v"
KvOf(rows) ==
    [k \in ParamKeys |->
        IF rows[k] = Absent \/ Strip(rows[k]) = "" THEN Absent ELSE Strip(rows[k])]

\* float(text): the float, or ValueError
FloatOf(v) ==
    CASE v = "0.5" -> "0.5"
      [] v = "5" -> "5.0"
      [] v = "inf" -> "inf"
      [] OTHER -> "ValueError"

\* int(float): truncation; OverflowError for an infinity
IntOf(f) ==
    CASE f = "0.5" -> "0"
      [] f = "5.0" -> "5"
      [] f = "inf" -> "OverflowError"

\* _float: "except (ValueError, TypeError): return default"
float_param(kv, key, default) ==
    IF kv[key] = Absent THEN default
    ELSE IF FloatOf(kv[key]) = "ValueError" THEN default
    ELSE FloatOf(kv[key])

\* _int: int(float(...)) under the same except clause; an OverflowError is
\* not caught
int_param(kv, key, default) ==
    IF kv[key] = Absent THEN default
    ELSE IF FloatOf(kv[key]) = "ValueError" THEN default
    ELSE IntOf(FloatOf(kv[key]))

\* _bool: "v = kv.get(key, str(default)).lower(); return v in (true, 1, yes)"
bool_param(kv, key, default) ==
    LET v == Lower(IF kv[key] = Absent THEN default ELSE kv[key])
    IN IF v \in {"true", "1", "yes"} THEN "True" ELSE "False"

params_from_config(rows) ==
    LET kv == KvOf(rows)
        n == int_param(kv, "retry_max_attempts_control", "3")
    IN IF n = "OverflowError"
       THEN [called |-> TRUE, raised |-> "OverflowError",
             params |-> [k \in ParamKeys |-> "unset"]]
       ELSE [called |-> TRUE, raised |-> "none",
             params |->
                 [risk_threshold_high |-> float_param(kv, "risk_threshold_high", "0.75"),
                  retry_max_attempts_control |-> n,
                  ml_enrichment_enabled |-> bool_param(kv, "ml_enrichment_enabled", "True")]]

ParamsFromConfig ==
    /\ ~param_out.called
    /\ param_out' = params_from_config(param_rows)
    /\ UNCHANGED <<param_rows, cacheVars, assignVars, bucketVars, decideVars, rulesVars,
                   routeVars, resultsVars, outcomeVars, logVars, syncVars, proposalVars,
                   reviewVars, staleVars, snapVars>>

NextParams == ParamsFromConfig

InitParams ==
    /\ InitCache /\ has_runtime /\ InitAssignIdle
    /\ InitBucketIdle /\ InitDecideIdle /\ InitRulesIdle
    /\ InitRoutesIdle /\ InitResultsIdle /\ InitOutcomeIdle /\ InitLogIdle
    /\ InitSyncIdle /\ InitProposalIdle
    /\ InitReviewIdle /\ InitStaleIdle /\ InitSnapIdle
    /\ param_rows \in [ParamKeys -> StoredValues \cup {Absent}]
    /\ param_out = NoParamsOut
SpecParams == InitParams /\ [][NextParams]_vars

\* ------------------------------------------------------------------------
\* The parameter snapshot of a decide_* call: "params = self._load_config()"
\* at its start, then enrichment (the call suspends), policy and rule step
\* ------------------------------------------------------------------------
\* the fields of DecisionParams a decide_* call reads, in the order it reads
\* them
EnrichFields == {"ml_enrichment_enabled", "ml_enrichment_timeout_ms"}
PolicyFields == {"risk_threshold_high", "risk_threshold_medium"}
RuleFields == {"rule_engine_enabled"}

\* DecisionParams is a frozen dataclass: a field read on a params object gives
\* the value that object was built with
FieldOf(params, field) == [field |-> field, of |-> params]

\* the params object a step of the call reads its fields from: the local
\* variable params of decide_*
ParamsReadFromCache(c) == pcache.data
ParamsRead(c) == preq[c].params

\* an operator changes decision_config in the store
ConfigChanges ==
    /\ store_ver < MaxVersions
    /\ store_ver' = store_ver + 1
    /\ UNCHANGED <<pcache, preq, nsnap, cacheVars, assignVars, bucketVars, decideVars,
                   rulesVars, routeVars, resultsVars, outcomeVars, logVars, syncVars,
                   proposalVars, reviewVars, staleVars, paramVars>>

\* 60 s pass since fetched_at was set: is_stale becomes true
ConfigExpires ==
    /\ pcache.data # NoParams
    /\ ~pcache.stale
    /\ pcache' = [pcache EXCEPT !.stale = TRUE]
    /\ UNCHANGED <<store_ver, preq, nsnap, cacheVars, assignVars, bucketVars, decideVars,
                   rulesVars, routeVars, resultsVars, outcomeVars, logVars, syncVars,
                   proposalVars, reviewVars, staleVars, paramVars>>

\* a decide_* call begins
SnapBegin(c) ==
    /\ preq[c].pc \in {"idle", "done"}
    /\ nsnap < MaxSnapRequests
    /\ nsnap' = nsnap + 1
    /\ preq' = [preq EXCEPT ![c] = [NoSnapReq EXCEPT !.pc = "load"]]
    /\ UNCHANGED <<store_ver, pcache, cacheVars, assignVars, bucketVars, decideVars,
                   rulesVars, routeVars, resultsVars, outcomeVars, logVars, syncVars,
                   proposalVars, reviewVars, staleVars, paramVars>>

\* the calls suspended in their gather while another call replaces the cached
\* snapshot by a different one
Overtaken(fresh) ==
    [c \in SnapClients |->
        IF preq[c].pc = "suspended" /\ preq[c].params # fresh
        THEN [preq[c] EXCEPT !.overtaken = TRUE] ELSE preq[c]]

\* "params = self._load_config()": the cached object while it is fresh, else
\* a new object built from the rows read (DecisionParams() when the read
\* fails or returns nothing), stored in _config_cache.data
SnapLoad(c) ==
    /\ preq[c].pc = "load"
    /\ IF ~pcache.stale /\ pcache.data # NoParams
       THEN /\ preq' = [preq EXCEPT ![c].pc = "loaded", ![c].params = pcache.data,
                                    ![c].at_start = pcache.data]
            /\ pcache' = pcache
       ELSE \E read_ok \in BOOLEAN :
            LET fresh == IF read_ok THEN ParamsOfRows(store_ver) ELSE DefaultParams
            IN /\ pcache' = [data |-> fresh, stale |-> FALSE]
               /\ preq' = [Overtaken(fresh) EXCEPT ![c].pc = "loaded", ![c].params = fresh,
                                                    ![c].at_start = fresh]
    /\ UNCHANGED <<store_ver, nsnap, cacheVars, assignVars, bucketVars, decideVars,
                   rulesVars, routeVars, resultsVars, outcomeVars, logVars, syncVars,
                   proposalVars, reviewVars, staleVars, paramVars>>

\* the call after a step that read the given fields of its params
AfterUse(c, fields, to) ==
    [preq[c] EXCEPT !.pc = to,
                    !.uses = @ \cup {FieldOf(ParamsRead(c), f) : f \in fields}]

\* _enrich_with_ml(ctx, params) tests the flag and takes the timeout; the call
\* then awaits its gather
SnapEnrich(c) ==
    /\ preq[c].pc = "loaded"
    /\ preq' = [preq EXCEPT ![c] = AfterUse(c, EnrichFields, "suspended")]
    /\ UNCHANGED <<store_ver, pcache, nsnap, cacheVars, assignVars, bucketVars, decideVars,
                   rulesVars, routeVars, resultsVars, outcomeVars, logVars, syncVars,
                   proposalVars, reviewVars, staleVars, paramVars>>

\* the gather returns and "_policy_*(enriched, variant=variant,
\* params=params)" runs with the thresholds
SnapPolicy(c) ==
    /\ preq[c].pc = "suspended"
    /\ preq' = [preq EXCEPT ![c] = AfterUse(c, PolicyFields, "rules")]
    /\ UNCHANGED <<store_ver, pcache, nsnap, cacheVars, assignVars, bucketVars, decideVars,
                   rulesVars, routeVars, resultsVars, outcomeVars, logVars, syncVars,
                   proposalVars, reviewVars, staleVars, paramVars>>

\* "if params.rule_engine_enabled:" and "return decision"
SnapRules(c) ==
    /\ preq[c].pc = "rules"
    /\ preq' = [preq EXCEPT ![c] = AfterUse(c, RuleFields, "done")]
    /\ UNCHANGED <<store_ver, pcache, nsnap, cacheVars, assignVars, bucketVars, decideVars,
                   rulesVars, routeVars, resultsVars, outcomeVars, logVars, syncVars,
                   proposalVars, reviewVars, staleVars, paramVars>>

NextSnap ==
    \/ ConfigChanges
    \/ ConfigExpires
    \/ \E c \in SnapClients : SnapBegin(c)
    \/ \E c \in SnapClients : SnapLoad(c)
    \/ \E c \in SnapClients : SnapEnrich(c)
    \/ \E c \in SnapClients : SnapPolicy(c)
    \/ \E c \in SnapClients : SnapRules(c)

InitSnap == InitCache /\ has_runtime /\ InitAssignIdle /\ InitLaterIdle
SpecSnap == InitSnap /\ [][NextSnap]_vars

\* ------------------------------------------------------------------------
\* Claims on the cache layer (checked under SpecCache)
\* ------------------------------------------------------------------------

\* C1: for every kind, a read whose test of the entry happens while the entry
\* is populated and now - fetched_at <= 60 returns the snapshot the cache held
\* at that moment and issues no read of the store.
C1_FreshReadServedFromCache ==
    \A t \in Threads :
        (pc[t] = "done" /\ obs[t].hit) =>
            /\ ~obs[t].loaded
            /\ obs[t].seen # NoSnapshot
            /\ frame[t].ret = Returned(frame[t].kind, obs[t].seen, frame[t].rule_type)

\* C1 witness: a read served from an entry that is exactly one TTL old.
C1_Witness ==
    \E t \in Threads :
        /\ pc[t] = "done" /\ obs[t].hit
        /\ now - cache[frame[t].kind].fetched_at = CACHE_TTL_SECONDS
        /\ frame[t].ret.snap.src = "rows"

\* C2 (as claimed): for every kind, at most one read of the store is issued
\* for one expiry of its entry, however many callers find it expired.
C2_OneLoadPerExpiry ==
    \A k \in Kinds : loads[k] <= 1

\* C3 (as claimed): at most one refresh (store read, snapshot write) is in
\* progress at any time, whatever the kinds.
Refreshing(t) == pc[t] \in {"read", "write_data", "write_time"}
C3_RefreshesSerialized ==
    Cardinality({t \in Threads : Refreshing(t)}) <= 1

\* C4: a read that finds its entry populated and within the TTL returns at
\* once: it is never at the lock, waiting for it or holding it.
C4_FreshReadLockFree ==
    \A t \in Threads :
        obs[t].hit => (pc[t] = "done" /\ ~obs[t].took_lock)

\* C4 witness: such a read returned while another caller held the lock.
C4_Witness ==
    \E t \in Threads :
        pc[t] = "done" /\ obs[t].hit /\ obs[t].lock_busy /\ ~obs[t].took_lock

\* C5 (as claimed): a loader whose store read failed, and which had found the
\* snapshot of an earlier completed refresh in the cache, returns (keeps
\* serving) that previous snapshot.
C5_FailedLoadKeepsPrevious ==
    \A t \in Threads :
        (pc[t] = "done" /\ obs[t].raised /\ obs[t].prev # NoSnapshot) =>
            frame[t].ret.snap = obs[t].prev

\* C6: a store read that raises never leaves the loader as an exception: the
\* loader returns a snapshot, and a caller outside a loader never holds the
\* lock.
C6_ReadErrorContained ==
    \A t \in Threads :
        /\ pc[t] # "failed"
        /\ (pc[t] = "done" /\ obs[t].raised) => frame[t].ret.snap # NoSnapshot
        /\ pc[t] \in {"idle", "done", "failed"} => lock # t

\* C6 witness: the locked loader returned after its store read had raised.
C6_Witness ==
    \E t \in Threads :
        /\ pc[t] = "done" /\ obs[t].raised
        /\ frame[t].kind = "config" /\ obs[t].took_lock
        /\ lock = NoThread

\* ------------------------------------------------------------------------
\* Claims on experiment assignment (checked under SpecAssign)
\* ------------------------------------------------------------------------

\* C7 (as claimed): every call of _get_or_assign_variant that returns a
\* variant returns the variant the first such call returned for the pair.
C7_SameVariantAsFirstCall ==
    \A c \in Clients :
        (req[c].op = "get_or_assign" /\ req[c].pc = "done" /\ req[c].ret # None) =>
            req[c].ret = first_variant[req[c].experiment_id][req[c].subject_key]

\* C8 (as claimed): the store holds at most one assignment row for each
\* (experiment_id, subject_key).
C8_AtMostOneRowPerPair ==
    \A e \in ExpIds, s \in Subjects : RowCount(e, s) <= 1

\* C9 (as claimed): no two stored assignments of the same pair have different
\* variants.
C9_OneVariantPerPair ==
    \A e \in ExpIds, s \in Subjects : Cardinality(VariantsOf(e, s)) <= 1

\* C10: a call of _get_or_assign_variant that found no assignment of the pair
\* and then found the experiment missing or in a status other than running
\* and draft returns None and has inserted no assignment.
C10_NotAssignableReturnsNone ==
    \A c \in Clients :
        (/\ req[c].op = "get_or_assign"
         /\ req[c].saw_none
         /\ req[c].saw_unassignable) =>
            /\ req[c].pc = "done"
            /\ req[c].ret = None
            /\ ~req[c].inserted

\* C10 witness: such a call has returned, on a stopped experiment whose other
\* subject has an assignment.
C10_Witness ==
    \E c \in Clients :
        /\ req[c].op = "get_or_assign" /\ req[c].pc = "done"
        /\ req[c].saw_none /\ req[c].saw_unassignable
        /\ experiments[req[c].experiment_id] = "stopped"
        /\ req[c].ret = None
        /\ \E r \in RowValues : assignments[r] > 0

\* ------------------------------------------------------------------------
\* Claims on the bucketing expression (checked under SpecBucket)
\* ------------------------------------------------------------------------

\* C11: two evaluations of the variant of a new assignment with the same
\* subject key give the same variant, whatever their experiment ids, their
\* times and the rows stored when they ran.
C11_VariantBySubjectOnly ==
    \A i, j \in DOMAIN runs :
        runs[i].subject_key = runs[j].subject_key =>
            runs[i].variant = runs[j].variant

\* C11 witness: two evaluations for one subject key that differ in the
\* experiment id, the time and the stored rows, and carry the same variant.
C11_Witness ==
    \E i, j \in DOMAIN runs :
        /\ runs[i].subject_key = runs[j].subject_key
        /\ runs[i].experiment_id # runs[j].experiment_id
        /\ runs[i].at # runs[j].at
        /\ runs[i].stored # runs[j].stored
        /\ runs[i].variant = runs[j].variant

\* ------------------------------------------------------------------------
\* Claims on a decision request (checked under SpecDecide)
\* ------------------------------------------------------------------------
PastGather == dreq.pc \in {"merge", "rules", "log", "returned", "raised"}
EngineDecided == decision.source = "engine"

\* C12 (as claimed): a decision request on a well-formed context never ends
\* with an exception raised to the caller, whatever fails in the store, the
\* services or the engine.
C12_NeverRaisedToCaller ==
    dreq.pc # "raised"

\* C13: no call of the gather that raises or times out takes the request out
\* of the engine path, and once the engine has decided, the keys of every
\* call that returned are in the metadata the policy function read.
C13_IndependentFailureBoundary ==
    /\ dreq.raised_at # "call"
    /\ (dreq.pc = "fallback" => dreq.raised_at = "engine")
    /\ EngineDecided =>
          \A n \in CallNames : Got(n) => KeysOf(n) \subseteq decision.seen

\* C13 witness: an authentication decision of the engine in which the risk
\* call timed out, the approval call raised and the similarity lookup
\* returned and was merged.
C13_Witness ==
    /\ EngineDecided
    /\ dcalls["risk"].state = "timed_out"
    /\ dcalls["approval"].state = "raised"
    /\ Got("similar")
    /\ KeysOf("similar") \subseteq decision.seen
    /\ dreq.pc = "returned"

\* C14: the request never waits for its calls longer than one
\* ml_enrichment_timeout_ms: while it awaits, and when the gather returns,
\* the time since the wait began is at most the timeout.
C14_WaitBoundedByOneTimeout ==
    /\ dreq.pc = "gather" => elapsed <= ML_ENRICHMENT_TIMEOUT_MS
    /\ PastGather => dreq.wait_ms <= ML_ENRICHMENT_TIMEOUT_MS

\* C14 witness: the wait ended exactly one timeout after it began, with a
\* scoring call that never answers and a second call that timed out too.
C14_Witness ==
    /\ PastGather
    /\ dreq.wait_ms = ML_ENRICHMENT_TIMEOUT_MS
    /\ \E n \in ScoringCalls, o \in CallNames :
          /\ n # o
          /\ dcalls[n].state = "timed_out" /\ dcalls[n].latency = Never
          /\ dcalls[o].state = "timed_out"

\* C15: every call is issued at most once in a request, and the keys of a
\* call that timed out are in no context object and not in what the
\* decision was computed from, also after its late answer has arrived.
C15_TimedOutCallAbandoned ==
    \A n \in CallNames :
        /\ dcalls[n].issued <= 1
        /\ dcalls[n].state = "timed_out" =>
              /\ \A i \in DOMAIN dicts : KeysOf(n) \cap dicts[i] = {}
              /\ KeysOf(n) \cap decision.seen = {}
              /\ (n = "risk" => decision.risk_score # "ml")

\* C15 witness: the engine decided and returned after the risk call had
\* timed out and its answer had arrived late, the approval call having
\* returned in time.
C15_Witness ==
    /\ dreq.pc = "returned" /\ EngineDecided
    /\ dcalls["risk"].state = "timed_out" /\ dcalls["risk"].late
    /\ dcalls["risk"].issued = 1
    /\ Got("approval")

\* C16: in a request whose params have ml_enrichment_enabled false, no
\* scoring call (risk, approval, retry, routing) is ever issued.
C16_DisabledIssuesNoScoring ==
    ~dreq.enabled => \A n \in ScoringCalls : dcalls[n].issued = 0

\* C16 witness: a routing decision of the engine returned with enrichment
\* disabled and the service available, the similarity lookup having run.
C16_Witness ==
    /\ dreq.pc = "returned" /\ EngineDecided
    /\ dreq.decision_type = "routing"
    /\ ~dreq.enabled /\ dreq.service = "available"
    /\ dcalls["similar"].issued = 1

\* C17: the caller's DecisionContext is never written: its risk score, its
\* metadata attribute and the contents of its metadata dict are those it
\* was passed with.
C17_OriginalContextUnchanged ==
    dreq.pc # "idle" =>
        /\ objs[CtxRef] = [risk_score |-> dreq.ctx0.risk_score, md |-> 1]
        /\ dicts[1] = dreq.ctx0.metadata

\* C17 witness: an authentication decision computed on a copy that carries
\* ml_, vs_, agent and stream keys and the model's risk score.
C17_Witness ==
    /\ EngineDecided
    /\ decision.input # CtxRef
    /\ decision.risk_score = "ml"
    /\ KeysOf("risk") \cup KeysOf("approval") \cup KeysOf("similar")
         \cup RecKeys("authentication") \cup StreamKeys \subseteq decision.seen
    /\ dreq.ctx0.metadata = {}

\* ------------------------------------------------------------------------
\* Claims on the rule override (checked under SpecRules)
\* ------------------------------------------------------------------------
RulesDone == rreq.pc = "return" /\ rreq.enabled

\* a is in S and no rule of S has a lower priority value, or the same
\* priority value and a later updated_at
Wins(a, S) ==
    /\ a \in S
    /\ \A r \in S : /\ a.priority <= r.priority
                    /\ (a.priority = r.priority => a.updated_at >= r.updated_at)

Matches(r) == r.rule_type = rreq.decision_type /\ r.cond = "true"

\* The matching rules among the active rows of the store, and among the
\* rows the query returned
ActiveCands ==
    {RuleOf(rtable, i) : i \in {j \in DOMAIN rtable :
                                   rtable[j].is_active /\ Matches(rtable[j])}}
HeldCands == {r \in {rcache[i] : i \in DOMAIN rcache} : Matches(r)}

\* C18: for each decision type, the audit id and the substantive fields of
\* the decision are those the policy function produced, whether or not a
\* rule was applied, and without a rule the whole decision is.
C18_OverrideKeepsSubstance ==
    rreq.pc # "idle" =>
        LET p == PolicyDecision(rreq.decision_type)
        IN /\ rdec.audit_id = p.audit_id
           /\ rdec.fields = p.fields
           /\ (rreq.applied = 0 => rdec = p)

\* C18 witness: an authentication decision returned with a rule applied:
\* reason and provenance metadata amended, substance as the policy's.
C18_Witness ==
    /\ rreq.pc = "return" /\ rreq.applied # 0
    /\ rreq.decision_type = "authentication"
    /\ rdec.reason = [by |-> "rule", rule |-> rreq.applied]
    /\ "matched_rule_id" \in rdec.metadata
    /\ rdec.fields = "policy"

\* Selection among the rows the query returned (the first 200 active rules
\* of all types by priority, then latest update): of those of the decision's
\* type whose condition evaluates true, the rule applied is the one with the
\* lowest priority value, ties broken by the most recent update; none is
\* applied when there is none.
HeldLowestPriorityWins ==
    (RulesDone /\ rreq.load_ok) =>
        IF HeldCands = {} THEN rreq.applied = 0
        ELSE \E a \in HeldCands : a.id = rreq.applied /\ Wins(a, HeldCands)

\* The case of that selection: the priority-10 rule was applied although a
\* matching priority-20 rule precedes it in the store, and a third matching
\* rule ties with it on priority and was updated earlier.
HeldLowestPriorityWinsSeen ==
    /\ RulesDone /\ rreq.load_ok
    /\ \E a, b, c \in HeldCands :
          /\ a.id = rreq.applied
          /\ a.priority = 10 /\ b.priority = 20 /\ b.id < a.id
          /\ c.priority = 10 /\ c.updated_at < a.updated_at /\ c.id < a.id

\* C19 (as claimed): among the active rules of the decision's type whose
\* condition evaluates true, the rule applied is the one with the lowest
\* priority value, ties broken by the most recent update.
C19_LowestPriorityOfActiveWins ==
    (RulesDone /\ rreq.load_ok /\ ActiveCands # {}) =>
        \E a \in ActiveCands : a.id = rreq.applied /\ Wins(a, ActiveCands)

\* C20: when the loop of _evaluate_rules is over, every rule of the list was
\* evaluated, and the matching list holds exactly the rules whose condition
\* evaluated true, those after a rule whose evaluation raised included.
C20_EvalFailureSkipsOneRule ==
    RulesDone =>
        /\ rreq.evaluated = {rreq.rules[i].id : i \in DOMAIN rreq.rules}
        /\ {matching[i].id : i \in DOMAIN matching}
             = {rreq.rules[i].id : i \in {j \in DOMAIN rreq.rules :
                                             rreq.rules[j].cond = "true"}}

\* C20 witness: the evaluation of the first rule raised, and the rule after
\* it matched and was applied.
C20_Witness ==
    /\ RulesDone
    /\ Len(rreq.rules) >= 2
    /\ rreq.rules[1].cond = "raises"
    /\ rreq.rules[2].cond = "true"
    /\ rreq.applied = rreq.rules[2].id

\* ------------------------------------------------------------------------
\* Claims on route ranking (checked under SpecRoutes)
\* ------------------------------------------------------------------------
NamesOf(list) == [i \in DOMAIN list |-> list[i].route_name]
ReadABC == {route_rows[i].route_name : i \in DOMAIN route_rows} = {"A", "B", "C"}

\* C21 (amended): the refresh ranks routes A(92%,400ms,0.3), B(92%,350ms,0.3),
\* C(80%,200ms,0.1) as B,A,C, in whatever order they were read: the tie on
\* approval rate is broken by the lower latency.
C21_RankedBAC ==
    ReadABC => NamesOf(routes) = <<"B", "A", "C">>

\* C21 witness: the routes were read in the order A,B,C and ranked B,A,C.
C21_Witness ==
    /\ NamesOf(route_rows) = <<"A", "B", "C">>
    /\ NamesOf(routes) = <<"B", "A", "C">>

\* C21 (as claimed): the refresh ranks the three routes as A,B,C.
C21_RankedABC ==
    ReadABC => NamesOf(routes) = <<"A", "B", "C">>

\* ------------------------------------------------------------------------
\* Claims on experiment analysis (checked under SpecResults)
\* ------------------------------------------------------------------------
FourOutcomes ==
    {"not_enough_data", "positive_lift", "negative_lift", "no_meaningful_difference"}

\* C22: every get_experiment_results call on an existing experiment returns
\* (does not raise) a result whose recommendation is one of the four outcomes,
\* also when both variants have outcomes and the difference is not significant.
C22_AlwaysReturnsRecommendation ==
    (exp_results.called /\ exp_rows.exists) =>
        /\ exp_results.raised = "none"
        /\ exp_results.recommendation \in FourOutcomes

\* C23: the analysis never divides by zero, and lift and p-value are computed
\* by the formulas exactly when their guards hold (control rate above 0;
\* pooled proportion strictly between 0 and 1) and are absent otherwise.
C23_NoDivisionByZero ==
    exp_results.called =>
        /\ exp_results.raised # "ZeroDivisionError"
        /\ exp_results.lift_pct.kind # "zerodiv"
        /\ (exp_results.lift_pct.kind = "value") <=>
               (BothHaveOutcomes(exp_rows.control, exp_rows.treatment)
                /\ exp_rows.exists /\ exp_rows.control.approved > 0)
        /\ exp_results.p_value <=>
               (/\ BothHaveOutcomes(exp_rows.control, exp_rows.treatment)
                /\ exp_rows.exists
                /\ exp_rows.control.approved + exp_rows.treatment.approved > 0
                /\ exp_rows.control.approved + exp_rows.treatment.approved
                       < exp_rows.control.outcomes + exp_rows.treatment.outcomes)

\* C23 witness: an analysis with a control approval rate of 0 and another
\* variant fully approved (pooled proportion inside (0,1)) was computed, lift
\* left absent and the p-value present.
C23_Witness ==
    /\ exp_results.called /\ exp_rows.exists
    /\ BothHaveOutcomes(exp_rows.control, exp_rows.treatment)
    /\ exp_rows.control.approved = 0
    /\ exp_results.raised = "none"
    /\ exp_results.lift_pct.kind = "none"
    /\ exp_results.p_value

Is200Case ==
    /\ exp_rows.exists
    /\ exp_rows.control.subjects > 0 /\ exp_rows.treatment.subjects > 0
    /\ exp_rows.control.outcomes = 200 /\ exp_rows.control.approved = 100
    /\ exp_rows.treatment.outcomes = 200 /\ exp_rows.treatment.approved = 130

\* C24: control with 200 outcomes of which 100 approved and treatment with 200
\* outcomes of which 130 approved give a lift of +30.0%, a p-value below 0.05,
\* is_significant true and the significant-positive-lift recommendation.
C24_SignificantPositiveLift ==
    (exp_results.called /\ Is200Case) =>
        /\ exp_results.raised = "none"
        /\ exp_results.lift_tenths = 300
        /\ exp_results.p_value
        /\ exp_results.is_significant
        /\ exp_results.recommendation = "positive_lift"

\* C24 witness: the 100/200 against 130/200 analysis was run and returned.
C24_Witness ==
    /\ exp_results.called /\ Is200Case
    /\ exp_results.recommendation = "positive_lift"

\* ------------------------------------------------------------------------
\* Claims on outcome recording (checked under SpecOutcome)
\* ------------------------------------------------------------------------
\* C25: record_outcome never raises; it returns false when the session is
\* absent or the append or commit fails, and true only when the Outcome row was
\* appended; it accepts an audit id of no decision and leaves the DecisionLog
\* rows as they were.
C25_RecordOutcomeBestEffort ==
    out_obs.called =>
        /\ out_obs.ret \in {"true", "false"}
        /\ (~out_obs.has_session \/ out_obs.fault # "none") => out_obs.ret = "false"
        /\ out_obs.ret = "true" =>
               outcomes = Append(out_obs.rows_before,
                                 [audit_id |-> out_obs.audit_id, outcome |-> out_obs.outcome])
        /\ out_obs.ret = "false" => outcomes = out_obs.rows_before
        /\ (out_obs.has_session /\ out_obs.fault = "none") => out_obs.ret = "true"
        /\ decision_log = out_obs.log_before

\* C25 witness: the store holds DecisionLog rows, an outcome for an audit id of
\* none of them was appended, and true was returned.
C25_Witness ==
    /\ out_obs.called /\ out_obs.ret = "true"
    /\ out_obs.audit_id = "a9"
    /\ \A i \in DOMAIN decision_log : decision_log[i].audit_id # "a9"
    /\ decision_log # <<>>
    /\ Len(outcomes) = 1

\* ------------------------------------------------------------------------
\* Claims on a decision request and the stores (checked under SpecLog)
\* ------------------------------------------------------------------------
LogReturned == lreq.pc = "returned"
RowsOfReturned ==
    {i \in DOMAIN decision_log : decision_log[i].audit_id = lreq.decision.audit_id}

\* C26: every commit of a decision request to a store (experiment assignment,
\* online features, decision log) happens when the request's Decision already
\* has its audit id, and no two decisions share an audit id.
C26_AuditIdBeforeSideEffects ==
    /\ \A i \in DOMAIN effects : effects[i].audit_known
    /\ \A i, j \in DOMAIN decision_log :
           i # j => decision_log[i].audit_id # decision_log[j].audit_id

\* C27: a returned decision has exactly one DecisionLog row with its audit id,
\* already committed, whose request is the raw input context and whose
\* response is the final decision, on the engine and the fallback path.
C27_ReturnedDecisionLoggedOnce ==
    LogReturned =>
        /\ Cardinality(RowsOfReturned) = 1
        /\ \A i \in RowsOfReturned :
               /\ decision_log[i].request = SerializeContext(RawCtx(lreq))
               /\ decision_log[i].response =
                      WithAb(lreq.decision, lreq.experiment_id, lreq.variant)

\* C27 witness: after a request that returned a fallback decision, a request
\* returned a rule-overridden engine decision made on an enriched context.
C27_Witness ==
    /\ LogReturned /\ lreq.decision.source = "engine"
    /\ lreq.has_ml /\ lreq.decision.reason = "rule"
    /\ \E i \in DOMAIN decision_log : decision_log[i].response.source = "fallback"

\* the decision but for its audit id, and the one the request returns when the
\* feature write succeeds
ContentOf(d) == [source |-> d.source, reason |-> d.reason]
DecisionIfWritten(q) ==
    IF q.engine_raised THEN [source |-> "fallback", reason |-> "policy"]
    ELSE [source |-> "engine", reason |-> IF q.rule THEN "rule" ELSE "policy"]

\* C28: a request whose online-feature write failed does not fail because of
\* it and returns the decision it returns when the write succeeds.
C28_FeatureWriteErrorHarmless ==
    /\ (lreq.write = "failed" /\ lreq.pc = "fallback") => lreq.engine_raised
    /\ (lreq.write \in {"failed", "ok"} /\ LogReturned) =>
           ContentOf(lreq.decision) = DecisionIfWritten(lreq)

\* C28 witness: a request whose feature write failed returned an engine
\* decision, after one with the same inputs whose write succeeded had
\* returned the same.
C28_Witness ==
    /\ LogReturned /\ lreq.write = "failed"
    /\ lreq.decision.source = "engine"
    /\ \E i \in DOMAIN decision_log :
           /\ <<EntityPrefix(decision_log[i].decision_type), decision_log[i].audit_id>>
                  \in feature_rows
           /\ ContentOf(decision_log[i].response) = ContentOf(lreq.decision)

\* ------------------------------------------------------------------------
\* Claims on the two rule stores (checked under SpecSync)
\* ------------------------------------------------------------------------
\* C29: once every scheduled background sync task has run (none of them
\* skipped or failed), the secondary store holds the same rules as the
\* primary, whatever the order in which the tasks ran.
C29_StoresInSyncAfterTasks ==
    (sync_tasks = {} /\ ~sync_failed) => secondary = primary

\* ------------------------------------------------------------------------
\* Claims on config proposals (checked under SpecProposalLive)
\* ------------------------------------------------------------------------
\* the change of proposal i can be applied once the store works again
Appliable(i) == ~ApplyRaises(proposals[i], "none", TRUE)

\* C30: a proposal left in status approved by a failed apply can be retried:
\* with the operator retrying, review_proposal calls bring it to applied.
C30_ApprovedCanBeRetried ==
    \A i \in PropIds :
        (proposals[i].status = "approved" /\ Appliable(i))
            ~> (proposals[i].status = "applied")

\* No review_proposal call changes a proposal that is in status approved.
ApprovedIsFinal ==
    [][\A i \in PropIds :
          proposals[i].status = "approved" => proposals'[i] = proposals[i]]_vars

\* ------------------------------------------------------------------------
\* Claims on concurrent reviews (checked under SpecReview)
\* ------------------------------------------------------------------------

\* C31: a proposal is reviewed at most once: under any interleaving of
\* review_proposal calls on one proposal at most one call succeeds and the
\* change is written to the config tables at most once.
C31_ReviewedAtMostOnce ==
    \A i \in PropIds : rev_ok[i] <= 1 /\ rev_writes[i] <= 1

\* the second half of C31: a review that ends with 404, 400 or 422 leaves the
\* proposals and the config tables as they were
RefusedReviewChangesNothing ==
    [][\A o \in Operators, i \in PropIds, action \in ReviewActions :
          (ReviewBegin(o, i, action) /\ EarlyCode(proposals[i], action) # 0)
              => (proposals' = proposals /\ cfg' = cfg)]_vars

\* C32: whenever a proposal has status applied, the targeted row of the config
\* table named by its change_type existed and held the proposed value when
\* the status was set.
C32_AppliedRowHoldsValue ==
    \A i \in PropIds : proposals[i].status = "applied" => applied_snap[i] = i

\* ------------------------------------------------------------------------
\* Claims on experiment attribution (checked under SpecLog)
\* ------------------------------------------------------------------------

\* C33: every DecisionLog row whose response carries an experiment_id and a
\* variant corresponds to a stored ExperimentAssignment of that experiment,
\* the request's subject key and that variant.
C33_LoggedVariantIsAssigned ==
    \A k \in 1..Len(decision_log) :
        decision_log[k].response.experiment_id # None =>
            <<decision_log[k].response.experiment_id,
              decision_log[k].request.subject_key,
              decision_log[k].response.variant>> \in exp_assigned

\* ------------------------------------------------------------------------
\* Claims on assignment commits (checked under SpecAssign)
\* ------------------------------------------------------------------------

\* C34: no ExperimentAssignment is committed for an experiment whose status at
\* commit time is outside {running, draft}, whatever the interleaving of
\* decision requests, assign calls and stop_experiment.
C34_CommittedOnlyWhileAssignable ==
    [][\A c \in Clients :
          (InsertAssignment(c) \/ AssignInsert(c))
              => experiments[req[c].experiment_id] \in {"running", "draft"}]_vars

\* ------------------------------------------------------------------------
\* Claims on rule staleness (checked under SpecStale)
\* ------------------------------------------------------------------------

\* C35: once a rule has been deleted or deactivated in the store, no decision
\* whose rule evaluation starts more than 60 s later is overridden by it,
\* whether the refreshes in between succeed or fail.
C35_StalenessBoundedByTTL ==
    \A t \in Threads :
        (Overridden(t) /\ gone_at # Never) =>
            eval_start[t] <= gone_at + CACHE_TTL_SECONDS

\* ------------------------------------------------------------------------
\* Claims on _params_from_config (checked under SpecParams)
\* ------------------------------------------------------------------------
\* the texts a boolean parameter can be read from
BoolWords == {"true", "false", "1", "0", "yes", "no"}

\* the stored text of parameter k cannot be parsed as a value of its type
Unparsable(k, v) ==
    CASE k = "risk_threshold_high" -> FloatOf(v) = "ValueError"
      [] k = "retry_max_attempts_control" ->
             FloatOf(v) = "ValueError" \/ IntOf(FloatOf(v)) = "OverflowError"
      [] k = "ml_enrichment_enabled" -> Lower(v) \notin BoolWords

TakesDefault(k) ==
    param_out.raised = "none" /\ param_out.params[k] = Default(k)

\* C37: every parameter whose stored value is missing, empty or unparsable
\* takes its hard-coded default, numeric and boolean alike, and an empty row
\* set yields exactly the default DecisionParams.
C37_BadValueTakesDefault ==
    param_out.called =>
        \A k \in ParamKeys :
            (\/ param_rows[k] = Absent
             \/ Strip(param_rows[k]) = ""
             \/ Unparsable(k, Strip(param_rows[k]))) => TakesDefault(k)

\* the parts of C37 that hold: an empty row set gives the defaults, and a
\* missing or empty value gives the default when nothing is stored that
\* int() rejects
EmptyRowSetGivesDefaults ==
    (param_out.called /\ \A k \in ParamKeys : param_rows[k] = Absent) =>
        \A k \in ParamKeys : TakesDefault(k)
MissingOrEmptyTakesDefault ==
    (param_out.called /\ param_out.raised = "none") =>
        \A k \in ParamKeys :
            (param_rows[k] = Absent \/ Strip(param_rows[k]) = "") => TakesDefault(k)

\* ------------------------------------------------------------------------
\* Claims on the parameter snapshot of a request (checked under SpecSnap)
\* ------------------------------------------------------------------------

\* C36: the thresholds, the enrichment flag and timeout and the rule-engine
\* flag a decide_* call uses all come from the DecisionParams snapshot it
\* loaded at its start, also when another request refreshes the config cache
\* while it is suspended; no value comes from another or a mixed snapshot.
C36_OneSnapshotPerRequest ==
    \A c \in SnapClients :
        \A u \in preq[c].uses : u.of = preq[c].at_start /\ u.of # NoParams

\* C36 witness: a call has read all five fields and returned, after the
\* cache was refreshed with a different snapshot while it was suspended.
C36_Witness ==
    \E c \in SnapClients :
        /\ preq[c].pc = "done"
        /\ preq[c].overtaken
        /\ pcache.data # preq[c].at_start
        /\ {u.field : u \in preq[c].uses} = EnrichFields \cup PolicyFields \cup RuleFields

====
